---- MODULE Spec2Model ----
(***************************************************************************)
(* Order execution and position-risk management of Mt5_AiTrade:            *)
(*   - calculate_simple_prices (AI/realtime_calculator.py), the price      *)
(*     normalizer, as an operator over prices counted in points;           *)
(*   - the annotation store (utils/database.py): one shared SQLite         *)
(*     connection guarded by _db_lock;                                     *)
(*   - send_order_request (MT5/order_info.py), the order gateway;          *)
(*   - TakeProfitMonitor (AI/position_monitor.py), the watcher thread(s).  *)
(* Prices are integers counted in points (point_value = 1), so that        *)
(* round(price, digits) keeps every value it is given.                     *)
(***************************************************************************)
EXTENDS Integers, Sequences, FiniteSets, TLC

VARIABLES
    \* ---- price normalizer -------------------------------------------
    calcIn,        \* the arguments and venue data of one normalization
    calcOut,       \* its result dict
    calcPc,        \* "ready" | "done"
    \* ---- annotation store -------------------------------------------
    dbFile,        \* committed rows of order_comments: ticket -> text | NoRow
    dbView,        \* rows as the open connection sees them (with its
                   \* uncommitted transaction)
    dbConn,        \* _db_connection is not None
    dbLock,        \* holder of _db_lock, or NoThread
    stPc,          \* per store client: position in save/get
    stArg,         \* per store client: [ticket, text] of the call in flight
    stRes,         \* per store client: value the last get returned
    stSeen,        \* per store client: committed row when its SELECT ran
    stExpect,      \* per store client: lastSaved row when its SELECT ran
    lastSaved,     \* ticket -> text of the last save that returned True
    reopened,      \* the connection was closed since the last save returned
    \* ---- order gateway (one call of send_order_request) --------------
    gwPc,          \* position inside send_order_request
    gwReq,         \* the request dict
    gwRes,         \* what mt5.order_send gave
    gwRet,         \* what send_order_request returned
    gwSent,        \* number of mt5.order_send calls of this submission
    gwStore0,      \* rows of the store when send_order_request was called
    \* ---- venue ------------------------------------------------------
    posKind,       \* ticket -> the position's side, target and magic tag
    posOpen,       \* tickets of the positions open at the venue
    bid,           \* the live bid of the symbol (points)
    healthy,       \* the venue answers listings, quotes and orders
    \* ---- TakeProfitMonitor ------------------------------------------
    is_running,    \* self.is_running
    enabled,       \* self.enabled
    price_cache,   \* self.price_cache[symbol], or NoPrice
    cacheAge,      \* time since self.last_cache_update[symbol], up to cache_ttl
    monitor_thread,\* self.monitor_thread: the thread started last, or 0
    thr,           \* per thread: position in monitor_loop and its locals
    ctl,           \* the caller of start/stop: "idle" | "joining"
    ctlRet,        \* the last call of start/stop and what it returned
    wDone,         \* tickets the watcher has closed with success
    wLate,         \* tickets for which the watcher submitted a closing order
                   \* after a close of the ticket had succeeded
    closeCall,     \* per thread: the call of close_position_by_take_profit
                   \* the loop has just made (position, request given to
                   \* mt5.order_send, value returned); NoCall once the loop
                   \* has moved on
    \* ---- execute_buy_sell -------------------------------------------
    exPc,          \* "idle" | "calc" | "check" | "send" | "done"
    exRec,         \* the recommendation's volume and texts
    exOut,         \* the outcome dict returned
    exCalls,       \* calls of send_order_request made
    \* ---- execute_trading_plan ---------------------------------------
    plan,          \* analysis_result['recommendations']
    planPc,        \* "idle" | "begin" | "loop" | "send" | "done"
    results,       \* execution_results
    planLog,       \* per executed action: the venue calls it made and the
                   \* request it handed to send_order_request
    pendOpen,      \* tickets of the pending orders at the venue
    \* ---- get_active_positions / get_pending_orders -------------------
    listPc,        \* "idle" | "loop" | "done"
    listTodo,      \* tickets the venue gave that are still to be converted
    listOut         \* positions_list / orders_list: ticket and comment

calcVars  == <<calcIn, calcOut, calcPc>>
storeVars == <<dbFile, dbView, dbConn, dbLock, stPc, stArg, stRes, stSeen,
               stExpect, lastSaved, reopened>>
gwVars    == <<gwPc, gwReq, gwRes, gwRet, gwSent, gwStore0>>
venueVars == <<posKind, posOpen, bid, healthy>>
watchVars == <<is_running, enabled, price_cache, cacheAge, monitor_thread, thr, ctl,
               ctlRet,
               wDone, wLate, closeCall>>
exVars    == <<exPc, exRec, exOut, exCalls>>
planVars  == <<plan, planPc, results, planLog, pendOpen>>
listVars  == <<listPc, listTodo, listOut>>
vars      == <<calcVars, storeVars, gwVars, venueVars, watchVars, exVars, planVars,
               listVars>>

storeClients == <<stPc, stArg, stRes, stSeen, stExpect, dbLock, dbConn, reopened>>
storeRows    == <<dbFile, dbView, lastSaved>>

otherThanCalc  == <<storeVars, gwVars, venueVars, watchVars, exVars, planVars,
                   listVars>>
otherThanStore == <<calcVars, gwVars, venueVars, watchVars, exVars, planVars,
                   listVars>>
otherThanGw    == <<calcVars, storeClients, venueVars, watchVars, exVars, planVars,
                   listVars>>
otherThanWatch == <<calcVars, storeClients, gwVars, exVars, planVars,
                   listVars>>
otherThanExec  == <<storeVars, venueVars, watchVars, planVars,
                   listVars>>
otherThanPlan  == <<calcVars, storeVars, watchVars, exVars, posKind, bid, healthy,
                   listVars>>

Max(a, b) == IF a >= b THEN a ELSE b
Abs(a)    == IF a >= 0 THEN a ELSE -a

(***************************************************************************)
(* Price normalizer                                                        *)
(***************************************************************************)
\* Bounds of the normalizer's inputs (points).
MaxBid    == 12
MaxSpread == 2
MaxLevel  == 8
MaxOffset == 8
MaxPts    == 9

\* safety_buffer = 5
safety_buffer == 5

Sides       == {"BUY", "SELL"}
StopsLevels == {0, 5, MaxLevel}
Offsets     == {-MaxOffset, -1, 0, 1, MaxOffset}

\* The quote and instrument data available: both lookups succeeded.
OkInputs ==
    [action : Sides, tick_ok : {TRUE}, info_ok : {TRUE},
     bid : 1..MaxBid, spread : 0..MaxSpread, trade_stops_level : StopsLevels,
     entry_offset_points : Offsets,
     stop_loss_points : 0..MaxPts, take_profit_points : 0..MaxPts]

\* symbol_info_tick or symbol_info returned nothing.
FailInputs ==
    [action : Sides, tick_ok : BOOLEAN, info_ok : BOOLEAN,
     bid : {MaxBid}, spread : {MaxSpread}, trade_stops_level : {0},
     entry_offset_points : {0},
     stop_loss_points : {0, MaxPts}, take_profit_points : {0, MaxPts}]
        \ [action : Sides, tick_ok : {TRUE}, info_ok : {TRUE},
           bid : {MaxBid}, spread : {MaxSpread}, trade_stops_level : {0},
           entry_offset_points : {0},
           stop_loss_points : {0, MaxPts}, take_profit_points : {0, MaxPts}]

CalcInputs == OkInputs \cup FailInputs

\* tick.ask: the venue quotes ask = bid + spread points.
Ask(in) == in.bid + in.spread

\* format_price: a price <= 0 becomes 0 (unset), any other is rounded to
\* the instrument's digits (a whole number of points stays as it is).
format_price(price) == IF price <= 0 THEN 0 ELSE price

\* min_effective_distance = max(min_stops_level, spread_points + safety_buffer)
min_effective_distance_no_buffer(in) == Max(in.trade_stops_level, in.spread)
min_effective_distance(in) == Max(in.trade_stops_level, in.spread + safety_buffer)

\* entry_price before formatting: the side's quote plus the entry offset.
naive_entry(in) ==
    (IF in.action = "BUY" THEN Ask(in) ELSE in.bid) + in.entry_offset_points

\* effective_stop_points = max(stop_loss_points, min_effective_distance)
effective_stop_points_raw(in) == in.stop_loss_points
effective_stop_points(in) == Max(in.stop_loss_points, min_effective_distance(in))

\* effective_profit_points = max(take_profit_points, spread + safety_buffer)
effective_profit_points_raw(in) == in.take_profit_points
effective_profit_points(in) == Max(in.take_profit_points, in.spread + safety_buffer)

\* stop_loss before formatting, with the clamp against the live quote.
naive_stop(in) ==
    IF in.action = "BUY"
    THEN naive_entry(in) - effective_stop_points(in)
    ELSE naive_entry(in) + effective_stop_points(in)

stop_loss_price(in) ==
    IF in.stop_loss_points <= 0 THEN 0
    ELSE IF in.action = "BUY"
         THEN IF naive_stop(in) >= in.bid
              THEN in.bid - min_effective_distance(in)
              ELSE naive_stop(in)
         ELSE IF naive_stop(in) <= Ask(in)
              THEN Ask(in) + min_effective_distance(in)
              ELSE naive_stop(in)

\* take_profit with the sides exchanged: below the entry for a BUY.
take_profit_price_wrong_side(in) ==
    IF in.take_profit_points <= 0 THEN 0
    ELSE IF in.action = "BUY"
         THEN naive_entry(in) - effective_profit_points(in)
         ELSE naive_entry(in) + effective_profit_points(in)

\* take_profit before formatting.
take_profit_price(in) ==
    IF in.take_profit_points <= 0 THEN 0
    ELSE IF in.action = "BUY"
         THEN naive_entry(in) + effective_profit_points(in)
         ELSE naive_entry(in) - effective_profit_points(in)

CalcError ==
    [success |-> FALSE, entry_price |-> 0, stop_loss |-> 0, take_profit |-> 0,
     min_effective_distance |-> 0]

calculate_simple_prices_unchecked(in) ==
    [success |-> TRUE,
     entry_price |-> format_price(naive_entry(in)),
     stop_loss |-> format_price(stop_loss_price(in)),
     take_profit |-> format_price(take_profit_price(in)),
     min_effective_distance |-> min_effective_distance(in)]
calculate_simple_prices(in) ==
    IF ~in.tick_ok \/ ~in.info_ok THEN CalcError
    ELSE [success |-> TRUE,
          entry_price |-> format_price(naive_entry(in)),
          stop_loss |-> format_price(stop_loss_price(in)),
          take_profit |-> format_price(take_profit_price(in)),
          min_effective_distance |-> min_effective_distance(in)]

InitCalc ==
    /\ calcIn \in CalcInputs
    /\ calcOut = CalcError
    /\ calcPc = "ready"

Calculate ==
    /\ calcPc = "ready"
    /\ calcOut' = calculate_simple_prices(calcIn)
    /\ calcPc' = "done"
    /\ UNCHANGED calcIn
    /\ UNCHANGED otherThanCalc

(***************************************************************************)
(* Annotation store (utils/database.py)                                    *)
(***************************************************************************)
\* Bound: tickets 1..MaxTicket are the keys used.
MaxTicket == 2

Tickets == 1..MaxTicket

\* Keys of the table: the tickets above, and the ticket of the order that
\* closes the position of each of them.
RowKeys == 1..(2 * MaxTicket)

\* Rationale texts: the empty text, a short one and a longer one.
Texts == {<< >>, <<"b">>, <<"b", "t">>}

\* No row for the ticket: fetchone() gives None.
NoRow == <<"None">>

NoThread == "none"

\* The two execution contexts that use the store.
StoreThreads == {"watcher", "decision"}

NoArg == [ticket |-> 0, text |-> NoRow]

\* States in which a client is inside "with _db_lock:".
InCritical(th) ==
    stPc[th] \in {"save_exec", "save_commit", "save_exit", "get_select", "get_exit"}

\* "with _db_lock:" is entered only while nobody holds the lock.
LockFreeIgnored == TRUE
LockFree == dbLock = NoThread

\* INSERT OR REPLACE INTO order_comments: the row of the ticket is the text.
InsertOrReplace(rows, ticket, text) == [rows EXCEPT ![ticket] = text]

\* conn.commit(): the connection's rows become the file's rows.
CommitSkipped(view, file) == file
Commit(view, file) == view

\* SELECT full_comment FROM order_comments WHERE ticket = ?
SelectComment(rows, ticket) == rows[ticket]

InitStoreIdle ==
    /\ dbLock = NoThread
    /\ stPc = [th \in StoreThreads |-> "idle"]
    /\ stArg = [th \in StoreThreads |-> NoArg]
    /\ stRes = [th \in StoreThreads |-> NoRow]
    /\ stSeen = [th \in StoreThreads |-> NoRow]
    /\ stExpect = [th \in StoreThreads |-> NoRow]
    /\ reopened = FALSE

\* save_order_comment(ticket, comment) is called.
CallSave(th, ticket, text) ==
    /\ stPc[th] = "idle"
    /\ stPc' = [stPc EXCEPT ![th] = "save_lock"]
    /\ stArg' = [stArg EXCEPT ![th] = [ticket |-> ticket, text |-> text]]
    /\ UNCHANGED <<dbFile, dbView, dbConn, dbLock, stRes, stSeen, stExpect,
                   lastSaved, reopened>>
    /\ UNCHANGED otherThanStore

\* get_order_comment(ticket) is called.
CallGet(th, ticket) ==
    /\ stPc[th] = "idle"
    /\ stPc' = [stPc EXCEPT ![th] = "get_lock"]
    /\ stArg' = [stArg EXCEPT ![th] = [ticket |-> ticket, text |-> NoRow]]
    /\ UNCHANGED <<dbFile, dbView, dbConn, dbLock, stRes, stSeen, stExpect,
                   lastSaved, reopened>>
    /\ UNCHANGED otherThanStore

\* "with _db_lock:" then get_db_connection(): a connection opened here sees
\* the rows of the file.
EnterCritical(th) ==
    /\ stPc[th] \in {"save_lock", "get_lock"}
    /\ LockFree
    /\ dbLock' = th
    /\ dbConn' = TRUE
    /\ dbView' = IF dbConn THEN dbView ELSE dbFile
    /\ stPc' = [stPc EXCEPT ![th] =
                   IF stPc[th] = "save_lock" THEN "save_exec" ELSE "get_select"]
    /\ UNCHANGED <<dbFile, stArg, stRes, stSeen, stExpect, lastSaved, reopened>>
    /\ UNCHANGED otherThanStore

\* cursor.execute(INSERT OR REPLACE ...)
SaveExecute(th) ==
    /\ stPc[th] = "save_exec"
    /\ dbView' = InsertOrReplace(dbView, stArg[th].ticket, stArg[th].text)
    /\ stPc' = [stPc EXCEPT ![th] = "save_commit"]
    /\ UNCHANGED <<dbFile, dbConn, dbLock, stArg, stRes, stSeen, stExpect,
                   lastSaved, reopened>>
    /\ UNCHANGED otherThanStore

\* conn.commit()
SaveCommit(th) ==
    /\ stPc[th] = "save_commit"
    /\ dbFile' = Commit(dbView, dbFile)
    /\ stPc' = [stPc EXCEPT ![th] = "save_exit"]
    /\ UNCHANGED <<dbView, dbConn, dbLock, stArg, stRes, stSeen, stExpect,
                   lastSaved, reopened>>
    /\ UNCHANGED otherThanStore

\* return True, leaving the with block.
SaveExit(th) ==
    /\ stPc[th] = "save_exit"
    /\ dbLock' = IF dbLock = th THEN NoThread ELSE dbLock
    /\ lastSaved' = [lastSaved EXCEPT ![stArg[th].ticket] = stArg[th].text]
    /\ reopened' = FALSE
    /\ stPc' = [stPc EXCEPT ![th] = "idle"]
    /\ stArg' = [stArg EXCEPT ![th] = NoArg]
    /\ UNCHANGED <<dbFile, dbView, dbConn, stRes, stSeen, stExpect>>
    /\ UNCHANGED otherThanStore

\* cursor.execute(SELECT ...); cursor.fetchone()
GetSelect(th) ==
    /\ stPc[th] = "get_select"
    /\ stRes' = [stRes EXCEPT ![th] = SelectComment(dbView, stArg[th].ticket)]
    /\ stSeen' = [stSeen EXCEPT ![th] = dbFile[stArg[th].ticket]]
    /\ stExpect' = [stExpect EXCEPT ![th] = lastSaved[stArg[th].ticket]]
    /\ stPc' = [stPc EXCEPT ![th] = "get_exit"]
    /\ UNCHANGED <<dbFile, dbView, dbConn, dbLock, stArg, lastSaved, reopened>>
    /\ UNCHANGED otherThanStore

\* return result[0] or None, leaving the with block.
GetExit(th) ==
    /\ stPc[th] = "get_exit"
    /\ dbLock' = IF dbLock = th THEN NoThread ELSE dbLock
    /\ stPc' = [stPc EXCEPT ![th] = "idle"]
    /\ stArg' = [stArg EXCEPT ![th] = NoArg]
    /\ stRes' = [stRes EXCEPT ![th] = NoRow]
    /\ stSeen' = [stSeen EXCEPT ![th] = NoRow]
    /\ stExpect' = [stExpect EXCEPT ![th] = NoRow]
    /\ UNCHANGED <<dbFile, dbView, dbConn, lastSaved, reopened>>
    /\ UNCHANGED otherThanStore

\* close_database() between two store calls (a restart on the same file):
\* what the connection had not committed is gone.
close_database ==
    /\ dbConn
    /\ \A th \in StoreThreads : stPc[th] = "idle"
    /\ dbConn' = FALSE
    /\ dbView' = dbFile
    /\ reopened' = TRUE
    /\ UNCHANGED <<dbFile, dbLock, stPc, stArg, stRes, stSeen, stExpect, lastSaved>>
    /\ UNCHANGED otherThanStore

(***************************************************************************)
(* Order gateway: send_order_request (MT5/order_info.py)                   *)
(***************************************************************************)
\* request['action']: absent or an mt5.TRADE_ACTION_* value.
TradeActions == {"None", "DEAL", "PENDING", "SLTP", "REMOVE"}

\* request['type']: absent or an mt5.ORDER_TYPE_* value.
OrderTypes ==
    {"None", "BUY", "SELL", "BUY_LIMIT", "SELL_LIMIT", "BUY_STOP", "SELL_STOP",
     "BUY_STOP_LIMIT", "SELL_STOP_LIMIT", "CLOSE_BY"}

\* trading.magic_number of the configuration, and a tag given by a caller.
SystemMagic == "config"
CallerMagic == "caller"

\* The request dicts a caller may pass (volume and price default to 0, the
\* comment to the empty text; an absent original_comment is the empty text).
Requests ==
    [action : TradeActions, symbol : {"None", "S"}, volume : {0, 1},
     price : {0, 1}, type : OrderTypes, magic : {"None", CallerMagic},
     comment : {<< >>, <<"b", "t">>}, original_comment : Texts]

NoRequest ==
    [action |-> "None", symbol |-> "None", volume |-> 0, price |-> 0,
     type |-> "None", magic |-> "None", comment |-> << >>,
     original_comment |-> << >>]

\* mt5.order_send: no result, an exception, or a result with a return code
\* and an order ticket (0 when the venue names no order).
Retcodes == {"DONE", "ERROR_10011", "PLACED", "INVALID_STOPS"}
VenueResults ==
    [kind : {"none", "raise"}, retcode : {"None"}, order : {0}]
        \cup [kind : {"result"}, retcode : Retcodes, order : 0..MaxTicket]

NoResult == [kind |-> "none", retcode |-> "None", order |-> 0]

NeedsVolumePriceDealOnly(req) == req.action = "DEAL"
NeedsVolumePrice(req) == req.action \in {"DEAL", "PENDING"}

\* The checks before anything is sent: action and symbol present, volume
\* and price positive and an order type fitting the action for deal and
\* pending requests.
TypeFitsActionAlways(req) == TRUE
TypeFitsAction(req) ==
    IF req.action = "DEAL" THEN req.type \in {"BUY", "SELL"}
    ELSE IF req.action = "PENDING"
         THEN req.type \in {"BUY_LIMIT", "SELL_LIMIT", "BUY_STOP", "SELL_STOP",
                            "BUY_STOP_LIMIT", "SELL_STOP_LIMIT"}
         ELSE TRUE

RequestValid(req) ==
    /\ req.action # "None"
    /\ req.symbol # "None"
    /\ NeedsVolumePrice(req) => req.volume > 0
    /\ NeedsVolumePrice(req) => req.price > 0
    /\ NeedsVolumePrice(req) => (req.type # "None" /\ TypeFitsAction(req))

\* if magic is None: request['magic'] = config "trading.magic_number"
WithMagicLeftOut(req) == req
WithMagic(req) ==
    IF req.magic = "None" THEN [req EXCEPT !.magic = SystemMagic] ELSE req

\* The 10011 branch uses json, which the module does not import: a
\* NameError, caught by the except clause, which returns None.
ResultHandlingRaises(res) == res.kind = "result" /\ res.retcode = "ERROR_10011"

\* if original_comment and retcode == TRADE_RETCODE_DONE and order > 0
ShouldPersistAnyRetcode(req, res) ==
    /\ Len(req.original_comment) > 0
    /\ res.kind = "result"
    /\ res.order > 0
ShouldPersist(req, res) ==
    /\ Len(req.original_comment) > 0
    /\ res.kind = "result"
    /\ res.retcode = "DONE"
    /\ res.order > 0

\* save_order_comment(result.order, original_comment)
PersistedText(req) == req.original_comment

InitGateway ==
    /\ gwPc = "validate"
    /\ gwReq \in Requests
    /\ gwRes = NoResult
    /\ gwRet = "pending"
    /\ gwSent = 0
    /\ gwStore0 = [t \in RowKeys |-> NoRow]

InitGatewayIdle ==
    /\ gwPc = "done"
    /\ gwReq = NoRequest
    /\ gwRes = NoResult
    /\ gwRet = "None"
    /\ gwSent = 0
    /\ gwStore0 = [t \in RowKeys |-> NoRow]

\* Lines 285-341: a request that fails a check returns None.
GwRejectInvalid ==
    /\ gwPc = "validate"
    /\ ~RequestValid(gwReq)
    /\ gwPc' = "done"
    /\ gwRet' = "None"
    /\ UNCHANGED <<gwReq, gwRes, gwSent, gwStore0, dbFile, dbView, lastSaved>>
    /\ UNCHANGED otherThanGw

\* Lines 285-341: the request passes and gets its magic tag.
GwValidate ==
    /\ gwPc = "validate"
    /\ RequestValid(gwReq)
    /\ gwReq' = WithMagic(gwReq)
    /\ gwPc' = "symbol"
    /\ UNCHANGED <<gwRes, gwRet, gwSent, gwStore0, dbFile, dbView, lastSaved>>
    /\ UNCHANGED otherThanGw

\* Lines 343-355: mt5.symbol_info gives nothing (or the symbol cannot be
\* made visible): None is returned.
GwSymbolMissing ==
    /\ gwPc = "symbol"
    /\ gwReq.action # "REMOVE"
    /\ gwPc' = "done"
    /\ gwRet' = "None"
    /\ UNCHANGED <<gwReq, gwRes, gwSent, gwStore0, dbFile, dbView, lastSaved>>
    /\ UNCHANGED otherThanGw

\* Lines 343-393: the symbol is there (not looked up for a remove); the
\* comment is cleaned, the defaults are set and mt5_request is built.
GwPrepare ==
    /\ gwPc = "symbol"
    /\ gwPc' = "send"
    /\ UNCHANGED <<gwReq, gwRes, gwRet, gwSent, gwStore0, dbFile, dbView, lastSaved>>
    /\ UNCHANGED otherThanGw

\* Line 397: result = mt5.order_send(mt5_request)
GwOrderSend(res) ==
    /\ gwPc = "send"
    /\ gwRes' = res
    /\ gwSent' = gwSent + 1
    /\ gwPc' = "result"
    /\ UNCHANGED <<gwReq, gwRet, gwStore0, dbFile, dbView, lastSaved>>
    /\ UNCHANGED otherThanGw

\* Lines 400-403 and 511-515: no result, or an exception (raised by
\* order_send or while the result is handled): None is returned.
GwNoResultRetry ==
    /\ gwPc = "result"
    /\ gwRes.kind \in {"none", "raise"} \/ ResultHandlingRaises(gwRes)
    /\ gwPc' = IF gwSent < 2 THEN "send" ELSE "done"
    /\ gwRet' = "None"
    /\ UNCHANGED <<gwReq, gwRes, gwSent, gwStore0, dbFile, dbView, lastSaved>>
    /\ UNCHANGED otherThanGw
GwNoResult ==
    /\ gwPc = "result"
    /\ gwRes.kind \in {"none", "raise"} \/ ResultHandlingRaises(gwRes)
    /\ gwPc' = "done"
    /\ gwRet' = "None"
    /\ UNCHANGED <<gwReq, gwRes, gwSent, gwStore0, dbFile, dbView, lastSaved>>
    /\ UNCHANGED otherThanGw

\* Lines 405-499: result_dict is built and the return code is logged.
GwHandleResult ==
    /\ gwPc = "result"
    /\ gwRes.kind = "result" /\ ~ResultHandlingRaises(gwRes)
    /\ gwPc' = "persist"
    /\ UNCHANGED <<gwReq, gwRes, gwRet, gwSent, gwStore0, dbFile, dbView, lastSaved>>
    /\ UNCHANGED otherThanGw

\* Lines 501-509: the annotation is saved when there is one, the return
\* code is DONE and the venue named an order; result_dict is returned.
GwPersistReturn ==
    /\ gwPc = "persist"
    /\ IF ShouldPersist(gwReq, gwRes)
       THEN /\ dbView' = InsertOrReplace(dbView, gwRes.order, PersistedText(gwReq))
            /\ dbFile' = Commit(dbView', dbFile)
            /\ lastSaved' = [lastSaved EXCEPT ![gwRes.order] = PersistedText(gwReq)]
       ELSE UNCHANGED <<dbFile, dbView, lastSaved>>
    /\ gwPc' = "done"
    /\ gwRet' = "dict"
    /\ UNCHANGED <<gwReq, gwRes, gwSent, gwStore0>>
    /\ UNCHANGED otherThanGw

(***************************************************************************)
(* Venue: the positions and the quote the watcher looks at                 *)
(***************************************************************************)
\* Bound: the bid moves over 1..MaxPrice.
MaxPrice == 2

Prices == 1..MaxPrice

\* Bound: start() has at most MaxThreads loop threads to run.
MaxThreads == 2

Threads == 1..MaxThreads

\* self.cache_ttl (0.5 s by default): one step of the model clock.
cache_ttl == 1

\* What positions_get reports of a position: a Buy with a target at the top
\* of the range, a Sell with a target at the bottom, a Buy without target,
\* and a position that carries another magic tag.
PositionKinds ==
    { [position_type |-> "Buy",  tp |-> MaxPrice, magic |-> SystemMagic],
      [position_type |-> "Sell", tp |-> 1,        magic |-> SystemMagic],
      [position_type |-> "Buy",  tp |-> 0,        magic |-> SystemMagic],
      [position_type |-> "Buy",  tp |-> MaxPrice, magic |-> CallerMagic] }

NoPrice == 0

\* The kinds above and a position whose type is neither of the two sides:
\* position_type_map.get gives "UNKNOWN(...)" for it.
TriggerKinds ==
    PositionKinds \cup
        { [position_type |-> "UNKNOWN", tp |-> 1, magic |-> SystemMagic] }

\* The ticket the venue gives the order that closes position t.
CloseOrderTicket(t) == MaxTicket + t

\* original_comment of the closing request.
WatcherComment == <<"w", "S">>

RECURSIVE InTicketOrder(_)
InTicketOrder(S) ==
    IF S = {} THEN << >>
    ELSE LET t == CHOOSE x \in S : \A y \in S : x <= y
         IN  <<t>> \o InTicketOrder(S \ {t})

\* get_active_positions_silent: the open positions with the system's magic.
positions_list_any_magic == InTicketOrder(posOpen)
positions_list == InTicketOrder({t \in posOpen : posKind[t].magic = SystemMagic})

\* position.volume of the position with ticket t.
position_volume(t) == t

\* tick.ask of mt5.symbol_info_tick: one point above the bid.
tick_ask == bid + 1

\* close_position_by_take_profit, lines 193-198: the side and the price of
\* the closing deal.
close_type(kind) == IF kind.position_type = "Buy" THEN "SELL" ELSE "BUY"

close_price_bid_only(kind) == bid
close_price(kind) == IF kind.position_type = "Buy" THEN bid ELSE tick_ask

\* close_request, lines 201-212.
close_request(t) ==
    [action |-> "DEAL", symbol |-> "S", volume |-> position_volume(t),
     price |-> close_price(posKind[t]), type |-> close_type(posKind[t]),
     magic |-> "None", comment |-> << >>, original_comment |-> WatcherComment,
     position |-> t]

\* One call of close_position_by_take_profit: the position, the request
\* that went to mt5.order_send (NoRequest when none did) and the value
\* returned.
CloseCall(t, req, ret) == [ticket |-> t, req |-> req, ret |-> ret]

NoCall == CloseCall(0, NoRequest, FALSE)

\* check_position_take_profit, lines 154-166.
TriggeredNever(kind, price) == FALSE
TriggeredAnyOtherSide(kind, price) ==
    IF kind.position_type = "Buy" THEN price >= kind.tp
    ELSE price <= kind.tp
Triggered(kind, price) ==
    IF kind.position_type = "Buy" THEN price >= kind.tp
    ELSE IF kind.position_type = "Sell" THEN price <= kind.tp
    ELSE FALSE

\* check_position_take_profit, lines 142-146: no target is set.
NoTargetNever(kind) == FALSE
NoTarget(kind) == kind.tp <= 0

\* get_current_price, lines 108-110: the cached price is still valid.
CacheValidForever == price_cache # NoPrice
CacheValid == price_cache # NoPrice /\ cacheAge < cache_ttl

\* What start() or stop() returned.
Returned(call, ret) == [call |-> call, ret |-> ret]

DeadThread == [pc |-> "dead", todo |-> << >>, closed |-> 0]

Alive(w) == thr[w].pc # "dead"

\* The first position is a Buy the watcher has to look after; the others are
\* of any kind.
InitVenue ==
    /\ posKind \in [Tickets -> PositionKinds]
    /\ posKind[1].position_type = "Buy"
    /\ posKind[1].tp > 0 /\ posKind[1].magic = SystemMagic
    /\ posOpen = Tickets
    /\ bid \in Prices
    /\ healthy = TRUE

\* TakeProfitMonitor.__init__ (monitoring.enabled defaults to True).
InitMonitor ==
    /\ is_running = FALSE
    /\ enabled = TRUE
    /\ price_cache = NoPrice
    /\ cacheAge = cache_ttl
    /\ monitor_thread = 0
    /\ thr = [w \in Threads |-> DeadThread]
    /\ ctl = "idle"
    /\ ctlRet = Returned("none", FALSE)
    /\ wDone = {}
    /\ wLate = {}
    /\ closeCall = [w \in Threads |-> NoCall]

\* No position and a watcher that is never started.
InitWatchIdle ==
    /\ posKind = [t \in Tickets |-> CHOOSE k \in PositionKinds : k.tp = 0]
    /\ posOpen = {}
    /\ bid = 1
    /\ healthy = TRUE
    /\ InitMonitor

\* ---- the environment ---------------------------------------------------
QuoteMoves(p) ==
    /\ p # bid
    /\ bid' = p
    /\ UNCHANGED <<posKind, posOpen, healthy>>
    /\ UNCHANGED <<watchVars, storeRows, otherThanWatch>>

\* A position is closed by somebody else (the venue's own target or stop,
\* the operator, the executor).
VenueCloses(t) ==
    /\ t \in posOpen
    /\ posOpen' = posOpen \ {t}
    /\ UNCHANGED <<posKind, bid, healthy>>
    /\ UNCHANGED <<watchVars, storeRows, otherThanWatch>>

\* The venue stops, or starts again, answering every call.
VenueHealth ==
    /\ healthy' = ~healthy
    /\ UNCHANGED <<posKind, posOpen, bid>>
    /\ UNCHANGED <<watchVars, storeRows, otherThanWatch>>

\* time.time() moves on by one step.
AdvanceTime ==
    /\ price_cache # NoPrice
    /\ cacheAge < cache_ttl
    /\ cacheAge' = cacheAge + 1
    /\ UNCHANGED <<is_running, enabled, price_cache, monitor_thread, thr, ctl, ctlRet,
                   wDone, wLate, closeCall>>
    /\ UNCHANGED <<venueVars, storeRows, otherThanWatch>>

\* monitor.enabled is cleared or set again.
SetEnabled ==
    /\ enabled' = ~enabled
    /\ UNCHANGED <<is_running, price_cache, cacheAge, monitor_thread, thr, ctl, ctlRet,
                   wDone, wLate, closeCall>>
    /\ UNCHANGED <<venueVars, storeRows, otherThanWatch>>

\* ---- start and stop ------------------------------------------------------
\* Line 279: if self.is_running
AlreadyRunningNever == FALSE
AlreadyRunning == is_running

\* Line 283: if not self.enabled
MonitoringDisabledNever == FALSE
MonitoringDisabled == ~enabled

\* start(), lines 279-285: the watcher runs already, or is disabled; False
\* is returned.
StartRefused ==
    /\ ctl = "idle"
    /\ AlreadyRunning \/ MonitoringDisabled
    /\ ctlRet' = Returned("start", FALSE)
    /\ UNCHANGED <<is_running, enabled, price_cache, cacheAge, monitor_thread,
                   thr, ctl, wDone, wLate, closeCall>>
    /\ UNCHANGED <<venueVars, storeRows, otherThanWatch>>

\* stop(), lines 295-297: the watcher does not run; False is returned.
StopRefused ==
    /\ ctl = "idle"
    /\ ~is_running
    /\ ctlRet' = Returned("stop", FALSE)
    /\ UNCHANGED <<is_running, enabled, price_cache, cacheAge, monitor_thread,
                   thr, ctl, wDone, wLate, closeCall>>
    /\ UNCHANGED <<venueVars, storeRows, otherThanWatch>>

\* start(), lines 277-291: a new thread runs monitor_loop.
start(w) ==
    /\ ctl = "idle"
    /\ ~AlreadyRunning
    /\ ~MonitoringDisabled
    /\ ~Alive(w)
    /\ \A v \in Threads : v < w => Alive(v)
    /\ is_running' = TRUE
    /\ monitor_thread' = w
    /\ thr' = [thr EXCEPT ![w] = [pc |-> "top", todo |-> << >>, closed |-> 0]]
    /\ ctlRet' = Returned("start", TRUE)
    /\ UNCHANGED <<enabled, price_cache, cacheAge, ctl, wDone, wLate, closeCall>>
    /\ UNCHANGED <<venueVars, storeRows, otherThanWatch>>

\* stop(), lines 293-306: the flag is cleared and the thread, when alive, is
\* joined; True is returned when the join is over.
stop ==
    /\ ctl = "idle"
    /\ is_running
    /\ is_running' = FALSE
    /\ ctl' = IF monitor_thread # 0 /\ Alive(monitor_thread)
              THEN "joining" ELSE "idle"
    /\ ctlRet' = IF monitor_thread # 0 /\ Alive(monitor_thread)
                 THEN ctlRet ELSE Returned("stop", TRUE)
    /\ UNCHANGED <<enabled, price_cache, cacheAge, monitor_thread, thr, wDone,
                   wLate, closeCall>>
    /\ UNCHANGED <<venueVars, storeRows, otherThanWatch>>

\* join(timeout=5) returns because the thread has ended.
JoinEnded ==
    /\ ctl = "joining"
    /\ ~Alive(monitor_thread)
    /\ ctl' = "idle"
    /\ ctlRet' = Returned("stop", TRUE)
    /\ UNCHANGED <<is_running, enabled, price_cache, cacheAge, monitor_thread,
                   thr, wDone, wLate, closeCall>>
    /\ UNCHANGED <<venueVars, storeRows, otherThanWatch>>

\* join(timeout=5) returns after five seconds, the thread still alive;
\* stop() returns True all the same.
JoinTimeout ==
    /\ ctl = "joining"
    /\ Alive(monitor_thread)
    /\ ctl' = "idle"
    /\ ctlRet' = Returned("stop", TRUE)
    /\ UNCHANGED <<is_running, enabled, price_cache, cacheAge, monitor_thread,
                   thr, wDone, wLate, closeCall>>
    /\ UNCHANGED <<venueVars, storeRows, otherThanWatch>>

\* ---- monitor_loop --------------------------------------------------------
\* LoopTop with "while True": the run flag is not tested.
LoopTopIgnoresRunFlag(w) ==
    /\ thr[w].pc = "top"
    /\ thr' = [thr EXCEPT ![w].pc = IF ~enabled THEN "sleep" ELSE "fetch"]
    /\ UNCHANGED <<is_running, enabled, price_cache, cacheAge, monitor_thread,
                   ctl, ctlRet, wDone, wLate, closeCall>>
    /\ UNCHANGED <<venueVars, storeRows, otherThanWatch>>

\* LoopTop without lines 236-238: a disabled watcher runs its tick.
LoopTopIgnoresEnabled(w) ==
    /\ thr[w].pc = "top"
    /\ thr' = [thr EXCEPT ![w].pc = IF ~is_running THEN "dead" ELSE "fetch"]
    /\ UNCHANGED <<is_running, enabled, price_cache, cacheAge, monitor_thread,
                   ctl, ctlRet, wDone, wLate, closeCall>>
    /\ UNCHANGED <<venueVars, storeRows, otherThanWatch>>

\* Lines 233-238: while self.is_running; a disabled watcher sleeps.
LoopTop(w) ==
    /\ thr[w].pc = "top"
    /\ thr' = [thr EXCEPT ![w].pc =
                  IF ~is_running THEN "dead"
                  ELSE IF ~enabled THEN "sleep" ELSE "fetch"]
    /\ UNCHANGED <<is_running, enabled, price_cache, cacheAge, monitor_thread,
                   ctl, ctlRet, wDone, wLate, closeCall>>
    /\ UNCHANGED <<venueVars, storeRows, otherThanWatch>>

\* Lines 241-245: positions_get gives None; the tick is skipped.
FetchFails(w) ==
    /\ thr[w].pc = "fetch"
    /\ ~healthy
    /\ thr' = [thr EXCEPT ![w].pc = "sleep"]
    /\ UNCHANGED <<is_running, enabled, price_cache, cacheAge, monitor_thread,
                   ctl, ctlRet, wDone, wLate, closeCall>>
    /\ UNCHANGED <<venueVars, storeRows, otherThanWatch>>

\* FetchPositions without lines 249-250: the empty list leaves the cache.
FetchPositionsKeepsCache(w) ==
    /\ thr[w].pc = "fetch"
    /\ \E listed \in IF healthy THEN {positions_list}
                     ELSE {positions_list, << >>} :
          IF listed = << >>
          THEN thr' = [thr EXCEPT ![w].pc = "sleep"]
          ELSE thr' = [thr EXCEPT ![w] =
                          [pc |-> "check", todo |-> listed, closed |-> 0]]
    /\ UNCHANGED <<price_cache, cacheAge>>
    /\ UNCHANGED <<is_running, enabled, monitor_thread, ctl, ctlRet, wDone, wLate, closeCall>>
    /\ UNCHANGED <<venueVars, storeRows, otherThanWatch>>

\* Lines 241-252: the list of the tick; an empty list (no position of the
\* system, or positions_total giving None or 0) clears the price cache.
FetchPositions(w) ==
    /\ thr[w].pc = "fetch"
    /\ \E listed \in IF healthy THEN {positions_list}
                     ELSE {positions_list, << >>} :
          IF listed = << >>
          THEN /\ price_cache' = NoPrice
               /\ cacheAge' = cache_ttl
               /\ thr' = [thr EXCEPT ![w].pc = "sleep"]
          ELSE /\ thr' = [thr EXCEPT ![w] =
                             [pc |-> "check", todo |-> listed, closed |-> 0]]
               /\ UNCHANGED <<price_cache, cacheAge>>
    /\ UNCHANGED <<is_running, enabled, monitor_thread, ctl, ctlRet, wDone, wLate, closeCall>>
    /\ UNCHANGED <<venueVars, storeRows, otherThanWatch>>

\* Lines 256-267: the positions of the list are done; the thread sleeps.
EndOfTick(w) ==
    /\ thr[w].pc = "check"
    /\ thr[w].todo = << >>
    /\ thr' = [thr EXCEPT ![w] = [pc |-> "sleep", todo |-> << >>, closed |-> 0]]
    /\ closeCall' = [closeCall EXCEPT ![w] = NoCall]
    /\ UNCHANGED <<is_running, enabled, price_cache, cacheAge, monitor_thread,
                   ctl, ctlRet, wDone, wLate>>
    /\ UNCHANGED <<venueVars, storeRows, otherThanWatch>>

\* CheckPosition with a break where line 152 returns: a quote that cannot be
\* fetched ends the tick.
CheckPositionNoQuoteEndsTick(w) ==
    /\ thr[w].pc = "check"
    /\ thr[w].todo # << >>
    /\ LET t    == Head(thr[w].todo)
           kind == posKind[t]
           skip == [thr EXCEPT ![w].todo = Tail(thr[w].todo)]
           goOn(price) ==
               IF Triggered(kind, price)
               THEN [thr EXCEPT ![w].pc = "close"]
               ELSE skip
       IN  IF NoTarget(kind)
           THEN /\ thr' = skip
                /\ UNCHANGED <<price_cache, cacheAge>>
           ELSE IF CacheValid
           THEN /\ thr' = goOn(price_cache)
                /\ UNCHANGED <<price_cache, cacheAge>>
           ELSE \E tickOk \in IF healthy THEN {TRUE} ELSE BOOLEAN :
                    IF tickOk
                    THEN /\ price_cache' = bid
                         /\ cacheAge' = 0
                         /\ thr' = goOn(bid)
                    ELSE /\ thr' = [thr EXCEPT ![w].todo = << >>]
                         /\ UNCHANGED <<price_cache, cacheAge>>
    /\ closeCall' = [closeCall EXCEPT ![w] = NoCall]
    /\ UNCHANGED <<is_running, enabled, monitor_thread, ctl, ctlRet, wDone, wLate>>
    /\ UNCHANGED <<venueVars, storeRows, otherThanWatch>>

\* check_position_take_profit (lines 130-166) with get_current_price
\* (lines 95-128) for the next position of the list.
CheckPosition(w) ==
    /\ thr[w].pc = "check"
    /\ thr[w].todo # << >>
    /\ LET t    == Head(thr[w].todo)
           kind == posKind[t]
           skip == [thr EXCEPT ![w].todo = Tail(thr[w].todo)]
           goOn(price) ==
               IF Triggered(kind, price)
               THEN [thr EXCEPT ![w].pc = "close"]
               ELSE skip
       IN  IF NoTarget(kind)
           THEN /\ thr' = skip
                /\ UNCHANGED <<price_cache, cacheAge>>
           ELSE IF CacheValid
           THEN /\ thr' = goOn(price_cache)
                /\ UNCHANGED <<price_cache, cacheAge>>
           ELSE \E tickOk \in IF healthy THEN {TRUE} ELSE BOOLEAN :
                    IF tickOk
                    THEN /\ price_cache' = bid
                         /\ cacheAge' = 0
                         /\ thr' = goOn(bid)
                    ELSE /\ thr' = skip
                         /\ UNCHANGED <<price_cache, cacheAge>>
    /\ closeCall' = [closeCall EXCEPT ![w] = NoCall]
    /\ UNCHANGED <<is_running, enabled, monitor_thread, ctl, ctlRet, wDone, wLate>>
    /\ UNCHANGED <<venueVars, storeRows, otherThanWatch>>

\* close_position_by_take_profit, lines 186-190, and send_order_request up to
\* its symbol_info check: the quote or the symbol is not there and nothing
\* is sent.
CloseNotSent(w) ==
    /\ thr[w].pc = "close"
    /\ ~healthy
    /\ thr' = [thr EXCEPT ![w].pc = "check", ![w].todo = Tail(thr[w].todo)]
    /\ closeCall' = [closeCall EXCEPT ![w] =
                        CloseCall(Head(thr[w].todo), NoRequest, FALSE)]
    /\ UNCHANGED <<is_running, enabled, price_cache, cacheAge, monitor_thread,
                   ctl, ctlRet, wDone, wLate>>
    /\ UNCHANGED <<venueVars, storeRows, otherThanWatch>>

\* monitor_loop, lines 258-259: closed_positions += 1 when the close
\* returned True.
CountedAlways(ret) == 1
Counted(ret) == IF ret THEN 1 ELSE 0

\* The position t is open at the venue: it is among the open positions and
\* the venue has not just confirmed a closing deal of the executor for it.
OpenAtVenue(t) ==
    /\ t \in posOpen
    /\ ~(/\ planPc = "send" /\ gwSent > 0
         /\ gwRes.kind = "result" /\ gwRes.retcode = "DONE"
         /\ gwReq.action = "DEAL" /\ gwReq.position = t)

\* close_position_by_take_profit, lines 186-223: the closing request is built
\* at the live quote and send_order_request, which gives it the magic tag,
\* sends it. The venue confirms it only for a position that is open (and
\* then the position is gone); send_order_request saves the annotation of a
\* confirmed order.
ClosePosition(w) ==
    /\ thr[w].pc = "close"
    /\ LET t == Head(thr[w].todo)
       IN  /\ RequestValid(close_request(t))
           /\ wLate' = IF t \in wDone THEN wLate \cup {t} ELSE wLate
           /\ \E done \in IF ~OpenAtVenue(t) THEN {FALSE}
                          ELSE IF healthy THEN {TRUE} ELSE BOOLEAN :
                 IF done
                 THEN /\ posOpen' = posOpen \ {t}
                      /\ wDone' = wDone \cup {t}
                      /\ dbView' = InsertOrReplace(dbView, CloseOrderTicket(t),
                                                   WatcherComment)
                      /\ dbFile' = Commit(dbView', dbFile)
                      /\ lastSaved' = [lastSaved EXCEPT
                                          ![CloseOrderTicket(t)] = WatcherComment]
                      /\ thr' = [thr EXCEPT ![w].pc = "check",
                                            ![w].todo = Tail(thr[w].todo),
                                            ![w].closed = thr[w].closed + Counted(TRUE)]
                      /\ closeCall' = [closeCall EXCEPT ![w] =
                             CloseCall(t, WithMagic(close_request(t)), TRUE)]
                 ELSE /\ thr' = [thr EXCEPT ![w].pc = "check",
                                            ![w].todo = Tail(thr[w].todo),
                                            ![w].closed = thr[w].closed + Counted(FALSE)]
                      /\ closeCall' = [closeCall EXCEPT ![w] =
                             CloseCall(t, WithMagic(close_request(t)), FALSE)]
                      /\ UNCHANGED <<posOpen, wDone, storeRows>>
    /\ UNCHANGED <<is_running, enabled, price_cache, cacheAge, monitor_thread, ctl, ctlRet>>
    /\ UNCHANGED <<posKind, bid, healthy>>
    /\ UNCHANGED otherThanWatch

\* monitor_loop without its try/except: the exception ends the thread.
IterationRaisesUncaught(w) ==
    /\ thr[w].pc \in {"fetch", "check", "close"}
    /\ ~healthy
    /\ thr' = [thr EXCEPT ![w] = [pc |-> "dead", todo |-> << >>, closed |-> 0]]
    /\ closeCall' = [closeCall EXCEPT ![w] = NoCall]
    /\ UNCHANGED <<is_running, enabled, price_cache, cacheAge, monitor_thread,
                   ctl, ctlRet, wDone, wLate>>
    /\ UNCHANGED <<venueVars, storeRows, otherThanWatch>>

\* Lines 269-273: an exception inside the iteration is caught and logged;
\* the thread sleeps five seconds.
IterationRaises(w) ==
    /\ thr[w].pc \in {"fetch", "check", "close"}
    /\ ~healthy
    /\ thr' = [thr EXCEPT ![w] = [pc |-> "sleep", todo |-> << >>, closed |-> 0]]
    /\ closeCall' = [closeCall EXCEPT ![w] = NoCall]
    /\ UNCHANGED <<is_running, enabled, price_cache, cacheAge, monitor_thread,
                   ctl, ctlRet, wDone, wLate>>
    /\ UNCHANGED <<venueVars, storeRows, otherThanWatch>>

\* time.sleep(...) is over: back to the while test.
Wake(w) ==
    /\ thr[w].pc = "sleep"
    /\ thr' = [thr EXCEPT ![w].pc = "top"]
    /\ UNCHANGED <<is_running, enabled, price_cache, cacheAge, monitor_thread,
                   ctl, ctlRet, wDone, wLate, closeCall>>
    /\ UNCHANGED <<venueVars, storeRows, otherThanWatch>>

ThreadStep(w) ==
    \/ Wake(w)
    \/ IterationRaises(w)
    \/ LoopTop(w)
    \/ FetchFails(w)
    \/ FetchPositions(w)
    \/ EndOfTick(w)
    \/ CheckPosition(w)
    \/ CloseNotSent(w)
    \/ ClosePosition(w)

(***************************************************************************)
(* Executor: execute_buy_sell (AI/trading.py)                              *)
(***************************************************************************)
\* The recommendation beside what the calculator takes: its volume, comment
\* and reasoning.
Recs == [volume : {0, 1}, comment : {<< >>, <<"b">>}, reasoning : {<< >>, <<"t">>}]

NoRec == [volume |-> 0, comment |-> << >>, reasoning |-> << >>]

\* full_comment = f"{ai_comment} | {ai_reasoning}" if ai_reasoning else ai_comment
full_comment(rec) ==
    IF rec.reasoning # << >> THEN rec.comment \o <<"|">> \o rec.reasoning
    ELSE rec.comment

\* The inputs of an open: both sides, a bid at the bottom and at the top of
\* the range, every entry offset, stop and target absent, small and large,
\* and the inputs for which a lookup fails.
OpenInputs ==
    [action : Sides, tick_ok : {TRUE}, info_ok : {TRUE},
     bid : {1, MaxBid}, spread : {MaxSpread}, trade_stops_level : {0, MaxLevel},
     entry_offset_points : Offsets,
     stop_loss_points : {0, 3, MaxPts}, take_profit_points : {0, 4, MaxPts}]
        \cup FailInputs

\* mt5_params of execute_buy_sell, lines 288-300.
OpenRequest(rec, in, out) ==
    [action |-> "DEAL", symbol |-> "S", volume |-> rec.volume,
     price |-> out.entry_price, type |-> in.action, magic |-> "None",
     comment |-> << >>, original_comment |-> full_comment(rec),
     sl |-> out.stop_loss, tp |-> out.take_profit]

\* Lines 337-376: the stop or the target is on the wrong side of the entry.
OrderingViolated(req) ==
    IF req.type = "BUY"
    THEN \/ req.sl > 0 /\ req.sl >= req.price
         \/ req.tp > 0 /\ req.tp <= req.price
    ELSE \/ req.sl > 0 /\ req.sl <= req.price
         \/ req.tp > 0 /\ req.tp >= req.price

Outcome(ok, why, ticket) == [success |-> ok, reason |-> why, order_ticket |-> ticket]

NoOutcome == Outcome(FALSE, "none", 0)

\* No plan is being executed and the venue holds no pending order.
InitPlanIdle ==
    /\ plan = << >>
    /\ planPc = "idle"
    /\ results = << >>
    /\ planLog = << >>
    /\ pendOpen = {}

\* No listing is under way.
InitListIdle ==
    /\ listPc = "idle"
    /\ listTodo = << >>
    /\ listOut = << >>

InitExecIdle ==
    /\ exPc = "idle"
    /\ exRec = NoRec
    /\ exOut = NoOutcome
    /\ exCalls = 0
    /\ InitPlanIdle
    /\ InitListIdle

InitExec ==
    /\ exPc = "calc"
    /\ exRec \in Recs
    /\ exOut = NoOutcome
    /\ exCalls = 0
    /\ InitPlanIdle
    /\ InitListIdle

InitOpenCalc ==
    /\ calcIn \in OpenInputs
    /\ calcOut = CalcError
    /\ calcPc = "ready"

\* Lines 271-278: the calculator gave an error result.
ExCalcFailed ==
    /\ exPc = "calc" /\ calcPc = "done"
    /\ ~calcOut.success
    /\ exOut' = Outcome(FALSE, "calc_error", 0)
    /\ exPc' = "done"
    /\ UNCHANGED <<exRec, exCalls, calcVars, gwVars>>
    /\ UNCHANGED otherThanExec

\* Lines 311-319: the entry price is not positive.
ExPriceInvalid ==
    /\ exPc = "calc" /\ calcPc = "done"
    /\ calcOut.success
    /\ calcOut.entry_price <= 0
    /\ exOut' = Outcome(FALSE, "price", 0)
    /\ exPc' = "done"
    /\ UNCHANGED <<exRec, exCalls, calcVars, gwVars>>
    /\ UNCHANGED otherThanExec

\* Lines 321-329: the volume is not positive.
ExVolumeInvalid ==
    /\ exPc = "calc" /\ calcPc = "done"
    /\ calcOut.success
    /\ calcOut.entry_price > 0
    /\ exRec.volume <= 0
    /\ exOut' = Outcome(FALSE, "volume", 0)
    /\ exPc' = "done"
    /\ UNCHANGED <<exRec, exCalls, calcVars, gwVars>>
    /\ UNCHANGED otherThanExec

\* Lines 280-329: the parameters are built and pass both guards.
ExParamsOk ==
    /\ exPc = "calc" /\ calcPc = "done"
    /\ calcOut.success
    /\ calcOut.entry_price > 0
    /\ exRec.volume > 0
    /\ exPc' = "check"
    /\ UNCHANGED <<exRec, exOut, exCalls, calcVars, gwVars>>
    /\ UNCHANGED otherThanExec

\* Lines 331-386: with a stop or a target set and symbol_info and the tick
\* both obtained, a wrong side ordering is refused; otherwise
\* send_order_request is called.
ExCheckAndSend ==
    /\ exPc = "check"
    /\ LET req == OpenRequest(exRec, calcIn, calcOut)
       IN  \E lookOk \in BOOLEAN :
               IF (req.sl > 0 \/ req.tp > 0) /\ lookOk /\ OrderingViolated(req)
               THEN /\ exOut' = Outcome(FALSE, "sl_tp_logic", 0)
                    /\ exPc' = "done"
                    /\ UNCHANGED <<exCalls, gwVars>>
               ELSE /\ exPc' = "send"
                    /\ exCalls' = exCalls + 1
                    /\ gwReq' = req
                    /\ gwPc' = "validate"
                    /\ gwRes' = NoResult
                    /\ gwRet' = "pending"
                    /\ gwSent' = 0
                    /\ gwStore0' = dbFile
                    /\ UNCHANGED exOut
    /\ UNCHANGED <<exRec, calcVars>>
    /\ UNCHANGED otherThanExec

\* Lines 388-407: the outcome follows the result of send_order_request.
ExReturn ==
    /\ exPc = "send" /\ gwPc = "done"
    /\ exOut' = IF gwRet = "dict" /\ gwRes.retcode = "DONE"
                THEN Outcome(TRUE, "ok", gwRes.order)
                ELSE Outcome(FALSE, "failed", 0)
    /\ exPc' = "done"
    /\ UNCHANGED <<exRec, exCalls, calcVars, gwVars>>
    /\ UNCHANGED otherThanExec

(***************************************************************************)
(* Executor: execute_trading_plan, execute_close_cancel, execute_modify    *)
(* (AI/trading.py)                                                         *)
(***************************************************************************)
\* Bound: a plan has at most MaxPlan recommendations.
MaxPlan == 2

\* if action in ['HOLD', 'NO_TRADE', 'NO_NEW_POSITIONS', 'WAIT', 'SKIP']
PlaceholderActions == {"HOLD", "NO_TRADE", "NO_NEW_POSITIONS", "WAIT", "SKIP"}

\* The ticket of the one pending order the venue may hold.
PendTicket == MaxTicket + 1

\* rec.get('order_id'): absent (0), the ticket of a position or the ticket
\* of the pending order.
OrderIds == 0..PendTicket

\* The recommendations of a plan: the placeholders, an open of either side,
\* an action of unknown kind, a close and a cancel with every order_id, and
\* a modify with every order_id and with stop and target given or not.
PlanRecs ==
    [action : PlaceholderActions \cup {"BUY", "SELL", "OTHER"},
     order_id : {0}, stop_loss_points : {0}, take_profit_points : {0}]
      \cup [action : {"CLOSE", "CANCEL"}, order_id : OrderIds,
            stop_loss_points : {0}, take_profit_points : {0}]
      \cup [action : {"MODIFY"}, order_id : OrderIds,
            stop_loss_points : {0, 3}, take_profit_points : {0, 4}]

Plans == UNION {[1..n -> PlanRecs] : n \in 0..MaxPlan}

\* The per-action result dict: action, success, reason, order_ticket (0 for
\* None).
PlanOutcome(action, ok, why, ticket) ==
    [action |-> action, success |-> ok, reason |-> why, order_ticket |-> ticket]

\* pos.price_open and pos.sl of the position with ticket t.
price_open(t) == 8 + t
position_sl(t) == 2 + t

\* if not order_id
HasOrderIdAlways(rec) == TRUE
HasOrderId(rec) == rec.order_id # 0

\* execute_modify, lines 612-619: the new stop.
new_sl_always(rec) ==
    IF posKind[rec.order_id].position_type = "Buy"
    THEN price_open(rec.order_id) - rec.stop_loss_points
    ELSE price_open(rec.order_id) + rec.stop_loss_points
new_sl(rec) ==
    IF rec.stop_loss_points > 0
    THEN IF posKind[rec.order_id].position_type = "Buy"
         THEN price_open(rec.order_id) - rec.stop_loss_points
         ELSE price_open(rec.order_id) + rec.stop_loss_points
    ELSE position_sl(rec.order_id)

\* execute_modify, lines 621-627: the new target.
new_tp(rec) ==
    IF rec.take_profit_points > 0
    THEN IF posKind[rec.order_id].position_type = "Buy"
         THEN price_open(rec.order_id) + rec.take_profit_points
         ELSE price_open(rec.order_id) - rec.take_profit_points
    ELSE posKind[rec.order_id].tp

\* mt5_params of a close, lines 493-512: a deal of the opposite side at that
\* side's live price for the position's volume, naming the position.
CloseRequest(rec) ==
    [action |-> "DEAL", symbol |-> "S", volume |-> position_volume(rec.order_id),
     price |-> IF posKind[rec.order_id].position_type = "Buy"
               THEN bid ELSE tick_ask,
     type |-> IF posKind[rec.order_id].position_type = "Buy"
              THEN "SELL" ELSE "BUY",
     magic |-> "None", comment |-> << >>, original_comment |-> <<"b">>,
     position |-> rec.order_id, order |-> 0, sl |-> 0, tp |-> 0]

\* mt5_params of a cancel, lines 514-521: a remove naming the order.
CancelRequest(rec) ==
    [action |-> "REMOVE", symbol |-> "S", volume |-> 0, price |-> 0,
     type |-> "None", magic |-> "None", comment |-> << >>,
     original_comment |-> <<"b">>,
     position |-> 0, order |-> rec.order_id, sl |-> 0, tp |-> 0]

\* mt5_params of a modify, lines 629-637: stop and target of the position.
ModifyRequest(rec) ==
    [action |-> "SLTP", symbol |-> "S", volume |-> 0, price |-> 0,
     type |-> "None", magic |-> "None", comment |-> << >>,
     original_comment |-> <<"b", "t">>,
     position |-> rec.order_id, order |-> 0,
     sl |-> new_sl(rec), tp |-> new_tp(rec)]

\* The recommendation the loop is at.
PlanIndex == Len(results) + 1

AtAction(kinds) ==
    /\ planPc = "loop"
    /\ PlanIndex <= Len(plan)
    /\ plan[PlanIndex].action \in kinds

\* The action ends inside the executor: its outcome is appended.
Recorded(out, calls) ==
    /\ results' = Append(results, out)
    /\ planLog' = Append(planLog, [calls |-> calls, req |-> NoRequest])
    /\ UNCHANGED <<plan, planPc, pendOpen, posOpen, gwVars>>
    /\ UNCHANGED otherThanPlan

\* order_result = send_order_request(mt5_params)
Handed(req, calls) ==
    /\ planPc' = "send"
    /\ planLog' = Append(planLog, [calls |-> calls, req |-> req])
    /\ gwReq' = req
    /\ gwPc' = "validate"
    /\ gwRes' = NoResult
    /\ gwRet' = "pending"
    /\ gwSent' = 0
    /\ gwStore0' = dbFile
    /\ UNCHANGED <<plan, results, pendOpen, posOpen>>
    /\ UNCHANGED otherThanPlan

\* A plan arrives while the venue holds some positions and maybe a pending
\* order.
InitPlan ==
    /\ plan \in Plans
    /\ planPc = "begin"
    /\ results = << >>
    /\ planLog = << >>
    /\ pendOpen \in SUBSET {PendTicket}

InitPlanVenue ==
    /\ posKind \in [Tickets -> {k \in PositionKinds : k.magic = SystemMagic /\ k.tp > 0}]
    /\ posKind[1].position_type = "Buy"
    /\ \A t \in Tickets : t > 1 => posKind[t].position_type = "Sell"
    /\ posOpen \in SUBSET Tickets
    /\ bid = 1
    /\ healthy = TRUE

\* execute_trading_plan, lines 160-173: an empty plan, or no account
\* information, returns the empty list; otherwise the loop starts.
PlanBegin ==
    /\ planPc = "begin"
    /\ \E account_info \in BOOLEAN :
          planPc' = IF plan = << >> \/ ~account_info THEN "done" ELSE "loop"
    /\ UNCHANGED <<plan, results, planLog, pendOpen, posOpen, gwVars>>
    /\ UNCHANGED otherThanPlan

\* Lines 183-193: a placeholder is recorded as done.
PlanPlaceholder ==
    /\ AtAction(PlaceholderActions)
    /\ Recorded(PlanOutcome(plan[PlanIndex].action, TRUE, "skipped", 0), {})

\* Lines 202-212: an action of unknown kind is recorded as failed.
PlanUnknown ==
    /\ AtAction({"OTHER"})
    /\ Recorded(PlanOutcome("OTHER", FALSE, "unknown_action", 0), {})

\* Lines 199-200 and 214: execute_buy_sell returns its outcome; an open that
\* succeeds gives a new position.
PlanBuySell ==
    /\ AtAction({"BUY", "SELL"})
    /\ \E t \in {0} \cup (Tickets \ posOpen) :
          /\ results' = Append(results,
                 IF t > 0 THEN PlanOutcome(plan[PlanIndex].action, TRUE, "ok", t)
                 ELSE PlanOutcome(plan[PlanIndex].action, FALSE, "failed", 0))
          /\ posOpen' = IF t > 0 THEN posOpen \cup {t} ELSE posOpen
    /\ planLog' = Append(planLog, [calls |-> {"execute_buy_sell"}, req |-> NoRequest])
    /\ UNCHANGED <<plan, planPc, pendOpen, gwVars>>
    /\ UNCHANGED otherThanPlan

\* execute_close_cancel, lines 440-448, and execute_modify, lines 576-584:
\* no order_id.
MissingOrderId ==
    /\ AtAction({"CLOSE", "CANCEL", "MODIFY"})
    /\ ~HasOrderId(plan[PlanIndex])
    /\ Recorded(PlanOutcome(plan[PlanIndex].action, FALSE, "missing_id", 0), {})

\* execute_close_cancel, lines 450-491: there is no position at all, none
\* with this ticket, or no quote.
CloseRejected ==
    /\ AtAction({"CLOSE"})
    /\ HasOrderId(plan[PlanIndex])
    /\ LET id == plan[PlanIndex].order_id
       IN  IF posOpen = {}
           THEN Recorded(PlanOutcome("CLOSE", FALSE, "no_positions", 0),
                         {"positions_get"})
           ELSE IF id \notin posOpen
           THEN Recorded(PlanOutcome("CLOSE", FALSE, "position_not_found", 0),
                         {"positions_get"})
           ELSE Recorded(PlanOutcome("CLOSE", FALSE, "no_price", 0),
                         {"positions_get", "symbol_info_tick"})

\* execute_close_cancel, lines 450-524: the position is there and quoted;
\* the closing deal goes to send_order_request.
CloseSend ==
    /\ AtAction({"CLOSE"})
    /\ HasOrderId(plan[PlanIndex])
    /\ plan[PlanIndex].order_id \in posOpen
    /\ Handed(CloseRequest(plan[PlanIndex]), {"positions_get", "symbol_info_tick"})

\* execute_close_cancel, lines 514-524: the remove goes to
\* send_order_request with the order_id as it came.
CancelSend ==
    /\ AtAction({"CANCEL"})
    /\ HasOrderId(plan[PlanIndex])
    /\ Handed(CancelRequest(plan[PlanIndex]), {})

\* execute_modify, lines 586-607: no position with this ticket; a pending
\* order with it is told apart.
ModifyRejected ==
    /\ AtAction({"MODIFY"})
    /\ HasOrderId(plan[PlanIndex])
    /\ plan[PlanIndex].order_id \notin posOpen
    /\ Recorded(PlanOutcome("MODIFY", FALSE,
                    IF plan[PlanIndex].order_id \in pendOpen
                    THEN "is_pending" ELSE "position_not_found", 0),
                {"positions_get", "orders_get"})

\* execute_modify, lines 609-640 and 660-668: stop and target are computed
\* (symbol_info giving nothing raises, which is caught) and the update goes
\* to send_order_request.
ModifySend ==
    /\ AtAction({"MODIFY"})
    /\ HasOrderId(plan[PlanIndex])
    /\ plan[PlanIndex].order_id \in posOpen
    /\ LET rec == plan[PlanIndex]
           recomputes == rec.stop_loss_points > 0 \/ rec.take_profit_points > 0
       IN  \E symbol_info \in IF recomputes THEN BOOLEAN ELSE {TRUE} :
              IF symbol_info
              THEN Handed(ModifyRequest(rec),
                          IF recomputes THEN {"positions_get", "symbol_info"}
                          ELSE {"positions_get"})
              ELSE Recorded(PlanOutcome("MODIFY", FALSE, "exception", 0),
                            {"positions_get", "symbol_info"})

\* Lines 526-544 and 642-658: the outcome follows what send_order_request
\* returned; a confirmed close or cancel has taken the position or the
\* order from the venue.
PlanSendReturn ==
    /\ planPc = "send"
    /\ gwPc = "done"
    /\ LET rec == plan[PlanIndex]
           ok  == gwRet = "dict" /\ gwRes.retcode = "DONE"
       IN  /\ results' = Append(results,
                  IF ok THEN PlanOutcome(rec.action, TRUE, "ok", rec.order_id)
                  ELSE PlanOutcome(rec.action, FALSE, "failed", 0))
           /\ planLog' = [planLog EXCEPT ![PlanIndex].calls =
                             IF gwSent > 0 THEN @ \cup {"order_send"} ELSE @]
           /\ posOpen' = IF ok /\ rec.action = "CLOSE"
                         THEN posOpen \ {rec.order_id} ELSE posOpen
           /\ pendOpen' = IF ok /\ rec.action = "CANCEL"
                          THEN pendOpen \ {rec.order_id} ELSE pendOpen
    /\ planPc' = "loop"
    /\ UNCHANGED <<plan, gwVars>>
    /\ UNCHANGED otherThanPlan

\* Lines 231-235: every recommendation is done; the list is returned.
PlanEnd ==
    /\ planPc = "loop"
    /\ PlanIndex > Len(plan)
    /\ planPc' = "done"
    /\ UNCHANGED <<plan, results, planLog, pendOpen, posOpen, gwVars>>
    /\ UNCHANGED otherThanPlan

(***************************************************************************)
(* Listing: get_active_positions, get_pending_orders (MT5/order_info.py)   *)
(***************************************************************************)
\* The execution context that lists, and the one that saves meanwhile.
Lister == "decision"
Saver  == "watcher"

\* position.comment / order.comment: what the venue keeps of a comment.
VenueComment == <<"v">>

\* "comment": full_comment if full_comment is not None else position.comment
ListedCommentVenueOnly(stored, own) == own
ListedComment(stored, own) ==
    IF stored # NoRow THEN stored ELSE own

\* Lines 69-84 and 187-200: the venue's positions with the system's magic,
\* or its pending orders, are to be converted.
ListStart(kind) ==
    /\ listPc \in {"idle", "done"}
    /\ stPc[Lister] = "idle"
    /\ listPc' = "loop"
    /\ listTodo' = IF kind = "positions" THEN positions_list
                   ELSE InTicketOrder(pendOpen)
    /\ listOut' = << >>
    /\ UNCHANGED <<calcVars, storeVars, gwVars, venueVars, watchVars, exVars, planVars>>

\* Lines 91 and 207: full_comment = get_order_comment(ticket)
ListGet ==
    /\ listPc = "loop"
    /\ listTodo # << >>
    /\ CallGet(Lister, Head(listTodo))

\* Lines 93-119 and 209-238: get_order_comment has returned; the dict of the
\* item is appended with the stored text, or with the venue's comment when
\* there is none.
ListTake ==
    /\ listPc = "loop"
    /\ stPc[Lister] = "get_exit"
    /\ listOut' = Append(listOut,
                    [ticket |-> Head(listTodo),
                     comment |-> ListedComment(stRes[Lister], VenueComment)])
    /\ listTodo' = Tail(listTodo)
    /\ dbLock' = IF dbLock = Lister THEN NoThread ELSE dbLock
    /\ stPc' = [stPc EXCEPT ![Lister] = "idle"]
    /\ stArg' = [stArg EXCEPT ![Lister] = NoArg]
    /\ stRes' = [stRes EXCEPT ![Lister] = NoRow]
    /\ stSeen' = [stSeen EXCEPT ![Lister] = NoRow]
    /\ stExpect' = [stExpect EXCEPT ![Lister] = NoRow]
    /\ UNCHANGED <<dbFile, dbView, dbConn, lastSaved, reopened, listPc>>
    /\ UNCHANGED <<calcVars, gwVars, venueVars, watchVars, exVars, planVars>>

\* Lines 121-123 and 240-242: the list is returned.
ListEnd ==
    /\ listPc = "loop"
    /\ listTodo = << >>
    /\ listPc' = "done"
    /\ UNCHANGED <<listTodo, listOut>>
    /\ UNCHANGED <<calcVars, storeVars, gwVars, venueVars, watchVars, exVars, planVars>>

InitCalcIdle ==
    /\ calcIn = [action |-> "BUY", tick_ok |-> FALSE, info_ok |-> FALSE,
                 bid |-> MaxBid, spread |-> MaxSpread, trade_stops_level |-> 0,
                 entry_offset_points |-> 0, stop_loss_points |-> 0,
                 take_profit_points |-> 0]
    /\ calcOut = CalcError
    /\ calcPc = "done"

\* init_database(): the table exists and holds no row.
InitStoreFixed ==
    /\ dbFile = [t \in RowKeys |-> NoRow]
    /\ dbView = dbFile
    /\ dbConn = TRUE
    /\ lastSaved = dbFile
    /\ InitStoreIdle

(***************************************************************************)
(* Specifications                                                          *)
(***************************************************************************)
SpecCalcInit == InitCalc /\ InitStoreFixed /\ InitGatewayIdle /\ InitWatchIdle /\ InitExecIdle

SpecCalcNext == Calculate

SpecCalc == SpecCalcInit /\ [][SpecCalcNext]_vars

SpecStoreInit == InitCalcIdle /\ InitStoreFixed /\ InitGatewayIdle /\ InitWatchIdle /\ InitExecIdle

SpecStoreNext ==
    \/ \E th \in StoreThreads, t \in Tickets, x \in Texts : CallSave(th, t, x)
    \/ \E th \in StoreThreads, t \in Tickets : CallGet(th, t)
    \/ \E th \in StoreThreads : EnterCritical(th)
    \/ \E th \in StoreThreads : SaveExecute(th)
    \/ \E th \in StoreThreads : SaveCommit(th)
    \/ \E th \in StoreThreads : SaveExit(th)
    \/ \E th \in StoreThreads : GetSelect(th)
    \/ \E th \in StoreThreads : GetExit(th)
    \/ close_database

SpecStore == SpecStoreInit /\ [][SpecStoreNext]_vars

SpecGatewayInit == InitCalcIdle /\ InitStoreFixed /\ InitGateway /\ InitWatchIdle /\ InitExecIdle

SpecGatewayNext ==
    \/ GwRejectInvalid
    \/ GwValidate
    \/ GwSymbolMissing
    \/ GwPrepare
    \/ \E res \in VenueResults : GwOrderSend(res)
    \/ GwNoResult
    \/ GwHandleResult
    \/ GwPersistReturn

SpecGateway == SpecGatewayInit /\ [][SpecGatewayNext]_vars

\* One call of execute_buy_sell, down to the venue's answer (the request it
\* builds has passed the guards that send_order_request repeats).
SpecOpenInit == InitOpenCalc /\ InitStoreFixed /\ InitGatewayIdle /\ InitWatchIdle /\ InitExec

SpecOpenNext ==
    \/ Calculate
    \/ ExCalcFailed
    \/ ExPriceInvalid
    \/ ExVolumeInvalid
    \/ ExParamsOk
    \/ ExCheckAndSend
    \/ GwValidate
    \/ GwSymbolMissing
    \/ GwPrepare
    \/ \E res \in VenueResults : GwOrderSend(res)
    \/ GwNoResult
    \/ GwHandleResult
    \/ GwPersistReturn
    \/ ExReturn

SpecOpen == SpecOpenInit /\ [][SpecOpenNext]_vars

\* The venue's answers to the requests of a plan: nothing, a confirmation
\* and a refusal.
PlanVenueResults ==
    { NoResult,
      [kind |-> "result", retcode |-> "DONE", order |-> 1],
      [kind |-> "result", retcode |-> "INVALID_STOPS", order |-> 0] }

\* One call of execute_trading_plan, its closes, cancels and modifies down to
\* the venue's answer.
SpecPlanInit ==
    /\ InitCalcIdle /\ InitStoreFixed /\ InitGatewayIdle /\ InitPlanVenue /\ InitMonitor
    /\ exPc = "idle" /\ exRec = NoRec /\ exOut = NoOutcome /\ exCalls = 0
    /\ InitPlan
    /\ InitListIdle

SpecPlanNext ==
    \/ PlanBegin
    \/ PlanPlaceholder
    \/ PlanUnknown
    \/ PlanBuySell
    \/ MissingOrderId
    \/ CloseRejected
    \/ CloseSend
    \/ CancelSend
    \/ ModifyRejected
    \/ ModifySend
    \/ GwValidate
    \/ GwSymbolMissing
    \/ GwPrepare
    \/ \E res \in PlanVenueResults : GwOrderSend(res)
    \/ GwNoResult
    \/ GwHandleResult
    \/ GwPersistReturn
    \/ PlanSendReturn
    \/ PlanEnd

SpecPlan == SpecPlanInit /\ [][SpecPlanNext]_vars

\* Listings of the positions and of the pending orders while the other
\* context saves rationales.
SpecListInit ==
    /\ InitCalcIdle /\ InitStoreFixed /\ InitGatewayIdle /\ InitPlanVenue /\ InitMonitor
    /\ exPc = "idle" /\ exRec = NoRec /\ exOut = NoOutcome /\ exCalls = 0
    /\ plan = << >> /\ planPc = "idle" /\ results = << >> /\ planLog = << >>
    /\ pendOpen \in SUBSET {PendTicket}
    /\ InitListIdle

SpecListNext ==
    \/ \E kind \in {"positions", "orders"} : ListStart(kind)
    \/ ListGet
    \/ ListTake
    \/ ListEnd
    \/ \E t \in Tickets \cup {PendTicket}, x \in Texts : CallSave(Saver, t, x)
    \/ \E th \in StoreThreads : EnterCritical(th)
    \/ SaveExecute(Saver)
    \/ SaveCommit(Saver)
    \/ SaveExit(Saver)
    \/ GetSelect(Lister)

SpecList == SpecListInit /\ [][SpecListNext]_vars

\* One loop thread over positions of every kind, with the quote moving, the
\* cache expiring and the venue failing.
SpecTriggerInit ==
    /\ InitCalcIdle /\ InitStoreFixed /\ InitGatewayIdle /\ InitExecIdle
    /\ posKind \in [Tickets -> TriggerKinds]
    /\ posOpen = Tickets
    /\ bid \in Prices
    /\ healthy = TRUE
    /\ InitMonitor

SpecTriggerNext ==
    \/ \E p \in Prices : QuoteMoves(p)
    \/ VenueHealth
    \/ AdvanceTime
    \/ \E w \in Threads : start(w)
    \/ \E w \in Threads : LoopTop(w)
    \/ \E w \in Threads : FetchFails(w)
    \/ \E w \in Threads : FetchPositions(w)
    \/ \E w \in Threads : EndOfTick(w)
    \/ \E w \in Threads : CheckPosition(w)
    \/ \E w \in Threads : CloseNotSent(w)
    \/ \E w \in Threads : ClosePosition(w)
    \/ \E w \in Threads : IterationRaises(w)
    \/ \E w \in Threads : Wake(w)

SpecTrigger == SpecTriggerInit /\ [][SpecTriggerNext]_vars

\* The two contexts that close positions: a plan of the executor made of
\* CLOSE recommendations, down to the venue's answer, beside the watcher's
\* loop, over a Buy and a Sell position with a target each.
ClosePlans ==
    UNION {[1..n -> {r \in PlanRecs : r.action = "CLOSE" /\ r.order_id \in Tickets}] :
              n \in 1..MaxPlan}

SpecBothInit ==
    /\ InitCalcIdle /\ InitStoreFixed /\ InitGatewayIdle /\ InitMonitor
    /\ exPc = "idle" /\ exRec = NoRec /\ exOut = NoOutcome /\ exCalls = 0
    /\ InitListIdle
    /\ InitPlanVenue
    /\ posOpen = Tickets
    /\ plan \in ClosePlans
    /\ planPc = "begin"
    /\ results = << >>
    /\ planLog = << >>
    /\ pendOpen = {}

SpecBothNext ==
    \/ \E p \in Prices : QuoteMoves(p)
    \/ PlanBegin
    \/ CloseRejected
    \/ CloseSend
    \/ GwValidate
    \/ GwSymbolMissing
    \/ GwPrepare
    \/ \E res \in PlanVenueResults : GwOrderSend(res)
    \/ GwNoResult
    \/ GwHandleResult
    \/ GwPersistReturn
    \/ PlanSendReturn
    \/ PlanEnd
    \/ \E w \in Threads : start(w)
    \/ \E w \in Threads : LoopTop(w)
    \/ \E w \in Threads : FetchPositions(w)
    \/ \E w \in Threads : EndOfTick(w)
    \/ \E w \in Threads : CheckPosition(w)
    \/ \E w \in Threads : ClosePosition(w)
    \/ \E w \in Threads : Wake(w)

SpecBoth == SpecBothInit /\ [][SpecBothNext]_vars

\* The watcher with the venue, the operator and the clock around it.
Init ==
    /\ InitCalcIdle /\ InitStoreFixed /\ InitGatewayIdle /\ InitVenue /\ InitMonitor
    /\ InitExecIdle

Next ==
    \/ \E p \in Prices : QuoteMoves(p)
    \/ \E t \in Tickets : VenueCloses(t)
    \/ VenueHealth
    \/ AdvanceTime
    \/ SetEnabled
    \/ \E w \in Threads : start(w)
    \/ stop
    \/ JoinEnded
    \/ JoinTimeout
    \/ \E w \in Threads : LoopTop(w)
    \/ \E w \in Threads : FetchFails(w)
    \/ \E w \in Threads : FetchPositions(w)
    \/ \E w \in Threads : EndOfTick(w)
    \/ \E w \in Threads : CheckPosition(w)
    \/ \E w \in Threads : CloseNotSent(w)
    \/ \E w \in Threads : ClosePosition(w)
    \/ \E w \in Threads : IterationRaises(w)
    \/ \E w \in Threads : Wake(w)

Spec == Init /\ [][Next]_vars

\* The calls of start() and stop(), refused ones too, around a watcher that
\* has no position to look after.
SpecControlInit ==
    /\ InitCalcIdle /\ InitStoreFixed /\ InitGatewayIdle /\ InitWatchIdle
    /\ InitExecIdle

SpecControlNext ==
    \/ VenueHealth
    \/ SetEnabled
    \/ \E w \in Threads : start(w)
    \/ StartRefused
    \/ stop
    \/ StopRefused
    \/ JoinEnded
    \/ JoinTimeout
    \/ \E w \in Threads : LoopTop(w)
    \/ \E w \in Threads : FetchFails(w)
    \/ \E w \in Threads : FetchPositions(w)
    \/ \E w \in Threads : IterationRaises(w)
    \/ \E w \in Threads : Wake(w)

SpecControl == SpecControlInit /\ [][SpecControlNext]_vars

\* The watcher over one Buy and one Sell position with a target each; the
\* threads are scheduled and the clock moves.
FairInit ==
    /\ Init
    /\ posKind[1].position_type = "Buy"
    /\ \A t \in Tickets :
          /\ posKind[t].magic = SystemMagic
          /\ posKind[t].tp > 0
          /\ t > 1 => posKind[t].position_type = "Sell"

\* The venue answers every call and the watcher stays enabled.
FairNext ==
    \/ \E p \in Prices : QuoteMoves(p)
    \/ \E t \in Tickets : VenueCloses(t)
    \/ AdvanceTime
    \/ \E w \in Threads : start(w)
    \/ stop
    \/ JoinEnded
    \/ JoinTimeout
    \/ \E w \in Threads : LoopTop(w)
    \/ \E w \in Threads : FetchPositions(w)
    \/ \E w \in Threads : EndOfTick(w)
    \/ \E w \in Threads : CheckPosition(w)
    \/ \E w \in Threads : ClosePosition(w)
    \/ \E w \in Threads : Wake(w)

FairSpec ==
    /\ FairInit
    /\ [][FairNext]_vars
    /\ \A w \in Threads : WF_vars(ThreadStep(w))
    /\ WF_vars(AdvanceTime)

\* The watcher's threads under fair scheduling with a venue that fails:
\* listings, quotes and closing orders fail and calls raise while the venue
\* does not answer, and monitoring is switched off and on.
FaultNext ==
    \/ \E t \in Tickets : VenueCloses(t)
    \/ VenueHealth
    \/ SetEnabled
    \/ \E w \in Threads : start(w)
    \/ stop
    \/ JoinEnded
    \/ JoinTimeout
    \/ \E w \in Threads : LoopTop(w)
    \/ \E w \in Threads : FetchFails(w)
    \/ \E w \in Threads : FetchPositions(w)
    \/ \E w \in Threads : EndOfTick(w)
    \/ \E w \in Threads : CheckPosition(w)
    \/ \E w \in Threads : CloseNotSent(w)
    \/ \E w \in Threads : ClosePosition(w)
    \/ \E w \in Threads : IterationRaises(w)
    \/ \E w \in Threads : Wake(w)

FaultSpec ==
    /\ FairInit
    /\ [][FaultNext]_vars
    /\ \A w \in Threads : WF_vars(ThreadStep(w))

(***************************************************************************)
(* Claims about the annotation store                                       *)
(***************************************************************************)
\* C5: a get that follows a save of the same ticket returns exactly the text
\* of the last save that returned True, also when the connection was closed
\* and reopened on the same file in between, and a later save replaces an
\* earlier one (absent when no save was made).
C5_RoundTrip ==
    \A th \in StoreThreads :
        stPc[th] = "get_exit" => stRes[th] = stExpect[th]

\* A get returns a saved non-empty text after the connection was closed and
\* reopened since that save.
C5_Witness ==
    \E th \in StoreThreads :
        /\ stPc[th] = "get_exit"
        /\ reopened
        /\ stRes[th] \in Texts
        /\ Len(stRes[th]) > 0
        /\ stRes[th] = lastSaved[stArg[th].ticket]

\* C6: at most one thread is inside a store critical section at a time, and
\* what a get reads is a committed row (the previous text, absent, or the
\* complete new text), never the uncommitted state of a save in flight.
C6_MutualExclusion ==
    /\ Cardinality({th \in StoreThreads : InCritical(th)}) <= 1
    /\ \A th \in StoreThreads :
           stPc[th] = "get_exit" => stRes[th] = stSeen[th]

\* A get of ticket t is inside its critical section while the other thread
\* has called save for the same ticket and waits for the lock.
C6_Witness ==
    \E g \in StoreThreads, w \in StoreThreads :
        /\ g # w
        /\ stPc[g] = "get_exit"
        /\ stPc[w] = "save_lock"
        /\ stArg[w].ticket = stArg[g].ticket
        /\ stRes[g] \in Texts

(***************************************************************************)
(* Claims about the price normalizer                                       *)
(***************************************************************************)
\* The floors as the specification states them, from the inputs alone.
StopFloor(in)   == Max(in.trade_stops_level, in.spread + safety_buffer)
ProfitFloor(in) == in.spread + safety_buffer
RawEntry(in) ==
    (IF in.action = "BUY" THEN in.bid + in.spread ELSE in.bid)
        + in.entry_offset_points

Normalized(side) ==
    /\ calcPc = "done"
    /\ calcOut.success
    /\ calcIn.action = side

BothRequested == calcIn.stop_loss_points > 0 /\ calcIn.take_profit_points > 0

\* C7 as stated: every successful BUY normalization with stop and target
\* requested has stop < entry < target and entry - stop >= the floor
\* max(trade_stops_level, spread + 5).
C7_BuyOrdering_Original ==
    (Normalized("BUY") /\ BothRequested) =>
        /\ calcOut.stop_loss < calcOut.entry_price
        /\ calcOut.entry_price < calcOut.take_profit
        /\ calcOut.entry_price - calcOut.stop_loss >= StopFloor(calcIn)

\* C7 amended: the same, for the normalizations whose resulting stop is
\* positive (format_price did not replace a computed price <= 0 by 0).
C7_BuyOrdering ==
    (Normalized("BUY") /\ BothRequested /\ calcOut.stop_loss > 0) =>
        /\ calcOut.stop_loss < calcOut.entry_price
        /\ calcOut.entry_price < calcOut.take_profit
        /\ calcOut.entry_price - calcOut.stop_loss >= StopFloor(calcIn)

\* A BUY with a requested stop below the floor, raised to the floor.
C7_Witness ==
    /\ Normalized("BUY") /\ BothRequested /\ calcOut.stop_loss > 0
    /\ calcIn.stop_loss_points < StopFloor(calcIn)
    /\ calcOut.entry_price - calcOut.stop_loss = StopFloor(calcIn)

\* C8 as stated: every successful SELL normalization with stop and target
\* requested has target < entry < stop and stop - entry >= the floor.
C8_SellOrdering_Original ==
    (Normalized("SELL") /\ BothRequested) =>
        /\ calcOut.take_profit < calcOut.entry_price
        /\ calcOut.entry_price < calcOut.stop_loss
        /\ calcOut.stop_loss - calcOut.entry_price >= StopFloor(calcIn)

\* C8 amended: the same, for the normalizations whose resulting entry is
\* positive.
C8_SellOrdering ==
    (Normalized("SELL") /\ BothRequested /\ calcOut.entry_price > 0) =>
        /\ calcOut.take_profit < calcOut.entry_price
        /\ calcOut.entry_price < calcOut.stop_loss
        /\ calcOut.stop_loss - calcOut.entry_price >= StopFloor(calcIn)

\* A SELL with a positive target and a requested stop below the floor.
C8_Witness ==
    /\ Normalized("SELL") /\ BothRequested /\ calcOut.entry_price > 0
    /\ calcOut.take_profit > 0
    /\ calcIn.stop_loss_points < StopFloor(calcIn)
    /\ calcOut.stop_loss - calcOut.entry_price = StopFloor(calcIn)

\* C9 as stated: the resulting stop is at least the effective minimum
\* distance away from the live opposite quote (BUY: stop <= bid - floor,
\* SELL: stop >= ask + floor).
C9_StopClearsQuote ==
    (calcPc = "done" /\ calcOut.success /\ calcIn.stop_loss_points > 0) =>
        IF calcIn.action = "BUY"
        THEN calcOut.stop_loss <= calcIn.bid - StopFloor(calcIn)
        ELSE calcOut.stop_loss >= calcIn.bid + calcIn.spread + StopFloor(calcIn)

\* The naive stop lies on the protective side of the live quote.
NaiveStopCorrectSide(in) ==
    IF in.action = "BUY"
    THEN RawEntry(in) - Max(in.stop_loss_points, StopFloor(in)) < in.bid
    ELSE RawEntry(in) + Max(in.stop_loss_points, StopFloor(in)) > in.bid + in.spread

\* C10 as stated: with the naive stop on the correct side of the quote the
\* stop distance is max(requested, floor) and the target distance is
\* max(requested, spread + 5).
C10_Distances_Original ==
    (calcPc = "done" /\ calcOut.success) =>
        /\ (calcIn.stop_loss_points > 0 /\ NaiveStopCorrectSide(calcIn)) =>
               Abs(calcOut.entry_price - calcOut.stop_loss)
                   = Max(calcIn.stop_loss_points, StopFloor(calcIn))
        /\ calcIn.take_profit_points > 0 =>
               Abs(calcOut.take_profit - calcOut.entry_price)
                   = Max(calcIn.take_profit_points, ProfitFloor(calcIn))

\* C10 amended: the same distances, for the resulting prices that are
\* positive (not replaced by 0 because the computed price was <= 0).
C10_Distances ==
    (calcPc = "done" /\ calcOut.success /\ calcOut.entry_price > 0) =>
        /\ (calcIn.stop_loss_points > 0 /\ NaiveStopCorrectSide(calcIn)
              /\ calcOut.stop_loss > 0) =>
               Abs(calcOut.entry_price - calcOut.stop_loss)
                   = Max(calcIn.stop_loss_points, StopFloor(calcIn))
        /\ (calcIn.take_profit_points > 0 /\ calcOut.take_profit > 0) =>
               Abs(calcOut.take_profit - calcOut.entry_price)
                   = Max(calcIn.take_profit_points, ProfitFloor(calcIn))

\* The scenario of the specification: spread 2, stops level 5, requested
\* stop 3 and target 4 give distances 7 and 7.
C10_Witness ==
    /\ Normalized("BUY")
    /\ calcIn.spread = 2 /\ calcIn.trade_stops_level = 5
    /\ calcIn.stop_loss_points = 3 /\ calcIn.take_profit_points = 4
    /\ calcIn.entry_offset_points = 0
    /\ calcOut.entry_price - calcOut.stop_loss = 7
    /\ calcOut.take_profit - calcOut.entry_price = 7

(***************************************************************************)
(* Claims about the order gateway                                          *)
(***************************************************************************)
VenueConfirmed == gwRes.kind = "result" /\ gwRes.retcode = "DONE"

\* C3: the annotation store is written only after order_send has returned
\* with the success status: it still holds the rows it had at the call
\* while the request is checked, while order_send runs and when its result
\* has just come back, and it holds them at the end of every submission
\* that was rejected locally, got no result, raised or was not confirmed.
C3_PersistOnlyAfterSuccess ==
    /\ gwPc \in {"validate", "symbol", "send", "result", "persist"} =>
           (dbFile = gwStore0 /\ dbView = gwStore0)
    /\ (gwPc = "done" /\ ~VenueConfirmed) => dbFile = gwStore0

\* A confirmed submission has returned and its annotation is in the store.
C3_Witness ==
    /\ gwPc = "done"
    /\ gwSent = 1
    /\ VenueConfirmed
    /\ dbFile # gwStore0
    /\ dbFile[gwRes.order] = gwReq.original_comment

\* The rationale of a request: its original_comment, or else its comment
\* (as the comment above the save in send_order_request puts it).
Rationale(req) ==
    IF Len(req.original_comment) > 0 THEN req.original_comment ELSE req.comment

\* C4 as stated: after every submission the venue confirmed, the store
\* holds the request's rationale under the ticket the venue returned.
C4_ConfirmedIsAnnotated ==
    (gwPc = "done" /\ gwSent = 1 /\ VenueConfirmed) =>
        /\ gwRes.order \in Tickets
        /\ dbFile[gwRes.order] = Rationale(gwReq)

(***************************************************************************)
(* Claims about the take-profit watcher                                    *)
(***************************************************************************)
\* C1: over any sequence of poll ticks the watcher closes a position at most
\* once: after a closing order of the watcher for a ticket has succeeded, the
\* watcher submits no further closing order for that ticket.
C1_NoCloseAfterSuccess == wLate = {}

\* The position t has a target, the system's tag, is open and its target is
\* crossed by the live bid, while the watcher runs, is enabled and the
\* venue answers.
TargetCrossed(t) ==
    \/ posKind[t].position_type = "Buy" /\ bid >= posKind[t].tp
    \/ posKind[t].position_type = "Sell" /\ bid <= posKind[t].tp

CrossedAndWatched(t) ==
    /\ is_running /\ enabled /\ healthy
    /\ t \in posOpen
    /\ posKind[t].magic = SystemMagic
    /\ posKind[t].tp > 0
    /\ TargetCrossed(t)

\* C2: if the watcher is running and enabled and an open position's target
\* stays crossed while listing, quote and submission succeed, a closing
\* order of the watcher for it is eventually confirmed.
C2_CrossedIsClosed ==
    \A t \in Tickets :
        CrossedAndWatched(t) ~> (t \in wDone \/ ~CrossedAndWatched(t))

\* The watcher has closed a position whose target was crossed.
C2_Witness == wDone # {} /\ is_running /\ enabled /\ healthy

(***************************************************************************)
(* Claims about opening an order                                           *)
(***************************************************************************)
LookupFailed == ~calcIn.tick_ok \/ ~calcIn.info_ok

\* C11: when the quote or the instrument data cannot be obtained the
\* calculator returns the error result (success false, no prices) and
\* execute_buy_sell returns a failed outcome without calling
\* send_order_request; no open order is handed to send_order_request or sent
\* to the venue with an entry price <= 0.
C11_NoOpenWithoutPrice ==
    /\ (calcPc = "done" /\ LookupFailed) => calcOut = CalcError
    /\ LookupFailed => exCalls = 0 /\ gwSent = 0
    /\ (exPc = "done" /\ LookupFailed) => (~exOut.success /\ exOut.order_ticket = 0)
    /\ (exCalls > 0 \/ gwSent > 0) => gwReq.price > 0

\* An open has ended as failed, nothing called, because a lookup failed.
C11_Witness ==
    /\ exPc = "done" /\ LookupFailed
    /\ ~exOut.success /\ exCalls = 0

(***************************************************************************)
(* Claims about the checks and the result handling of send_order_request   *)
(***************************************************************************)
\* The request lacks action or symbol, or is a deal or pending request with
\* volume <= 0, price <= 0 or no order type.
Incomplete(req) ==
    \/ req.action = "None"
    \/ req.symbol = "None"
    \/ /\ req.action \in {"DEAL", "PENDING"}
       /\ (req.volume <= 0 \/ req.price <= 0 \/ req.type = "None")

\* C12: order_send is never called for a request that lacks action or
\* symbol, or that is a deal or pending request with volume <= 0, price <= 0
\* or no order type; such a request returns None and leaves the annotation
\* store as it was (the venue is reached through order_send only).
C12_IncompleteNeverSent ==
    Incomplete(gwReq) =>
        /\ gwPc \in {"validate", "done"}
        /\ gwSent = 0
        /\ dbFile = gwStore0 /\ dbView = gwStore0
        /\ gwPc = "done" => gwRet = "None"

\* A pending request without volume has been refused.
C12_Witness ==
    /\ gwPc = "done" /\ gwRet = "None" /\ gwSent = 0
    /\ gwReq.action = "PENDING" /\ gwReq.symbol # "None" /\ gwReq.volume <= 0
    /\ gwReq.price > 0 /\ gwReq.type = "BUY_LIMIT"

FourPendingTypes == {"BUY_LIMIT", "SELL_LIMIT", "BUY_STOP", "SELL_STOP"}

SixPendingTypes == FourPendingTypes \cup {"BUY_STOP_LIMIT", "SELL_STOP_LIMIT"}

\* C13 as stated: every request forwarded with a deal action has type buy
\* or sell and every request forwarded with a pending action has one of the
\* four limit/stop types.
C13_TypeMatchesAction_Original ==
    gwSent > 0 =>
        /\ gwReq.action = "DEAL" => gwReq.type \in {"BUY", "SELL"}
        /\ gwReq.action = "PENDING" => gwReq.type \in FourPendingTypes

\* C13: every request forwarded with a deal action has type buy or sell,
\* every request forwarded with a pending action has one of the six pending
\* types (limit, stop and stop-limit, each for buy and sell), and a deal or
\* pending request with any other type is refused with nothing sent.
C13_TypeMatchesAction ==
    /\ gwSent > 0 =>
          /\ gwReq.action = "DEAL" => gwReq.type \in {"BUY", "SELL"}
          /\ gwReq.action = "PENDING" => gwReq.type \in SixPendingTypes
    /\ (\/ gwReq.action = "DEAL" /\ gwReq.type \notin {"BUY", "SELL"}
        \/ gwReq.action = "PENDING" /\ gwReq.type \notin SixPendingTypes) =>
          /\ gwSent = 0
          /\ gwPc = "done" => gwRet = "None"

\* A pending stop-limit order has been forwarded to the venue.
C13_Witness ==
    /\ gwSent > 0
    /\ gwReq.action = "PENDING"
    /\ gwReq.type = "BUY_STOP_LIMIT"

\* C14 as stated: for every status other than success that the venue
\* returns, send_order_request returns a result dict (not None).
C14_NonSuccessIsReported ==
    (gwPc = "done" /\ gwRes.kind = "result" /\ gwRes.retcode # "DONE") =>
        gwRet = "dict"

\* C15: one call of send_order_request calls order_send at most once,
\* whatever the venue answers.
C15_NoRetry == gwSent <= 1

\* A call has ended after order_send gave no result or raised, or after a
\* status other than success: order_send was called once.
C15_Witness ==
    /\ gwPc = "done" /\ gwSent = 1
    /\ \/ gwRes.kind \in {"none", "raise"}
       \/ gwRes.retcode = "INVALID_STOPS"

(***************************************************************************)
(* Claims about starting and stopping the watcher                          *)
(***************************************************************************)
\* A step in which start() or stop() is called and returns at once.
CallReturns(call) == ctl = "idle" /\ ctlRet' # ctlRet /\ ctlRet'.call = call

\* C16: start() while running changes nothing (no new thread, still
\* running) and returns False; stop() while stopped changes nothing and
\* returns False; start() from stopped (enabled) makes the watcher running
\* and returns True; stop() from running makes it stopped and returns True;
\* a thread is created and the flag is set by such a start() only.
C16_StartStopMachine ==
    [][ /\ (CallReturns("start") /\ is_running) =>
               /\ ctlRet'.ret = FALSE
               /\ UNCHANGED <<is_running, thr, monitor_thread>>
        /\ (CallReturns("stop") /\ ~is_running) =>
               /\ ctlRet'.ret = FALSE
               /\ UNCHANGED <<is_running, thr, monitor_thread>>
        /\ (CallReturns("start") /\ ~is_running /\ enabled) =>
               /\ ctlRet'.ret = TRUE
               /\ is_running'
        /\ (is_running /\ ~is_running') =>
               /\ ctl = "idle"
               /\ ctl' = "joining" \/ ctlRet' = Returned("stop", TRUE)
        /\ (ctl = "joining" /\ ctl' = "idle") =>
               /\ ctlRet' = Returned("stop", TRUE)
               /\ ~is_running'
        /\ (\/ ~is_running /\ is_running'
            \/ \E w \in Threads : thr[w].pc = "dead" /\ thr'[w].pc # "dead") =>
               /\ ~is_running /\ enabled /\ is_running'
               /\ ctlRet' = Returned("start", TRUE)
      ]_vars

\* start() has been refused on a running watcher that is enabled.
C16_Witness ==
    /\ ctlRet = Returned("start", FALSE)
    /\ is_running /\ enabled
    /\ monitor_thread # 0

\* The threads that run monitor_loop.
LoopThreads == {w \in Threads : Alive(w)}

\* C17 as stated: at every moment at most one thread runs monitor_loop,
\* whatever the sequence of start() and stop() calls.
C17_OneLoopThread == Cardinality(LoopThreads) <= 1

\* A tick of thread w that lists the positions of an answering venue and
\* finds none of the system: the step from the listing to the sleep.
ListedNone(w) ==
    /\ healthy
    /\ positions_list = << >>
    /\ thr[w].pc = "fetch"
    /\ thr'[w].pc = "sleep"

\* C18: a tick that observes zero positions of the system submits no order
\* (venue, closing orders, store and gateway are as before) and ends with the
\* price cache and its timestamp empty and the thread's locals reset, so a
\* second such tick ends in the state the first one ended in.
C18_EmptyTickClearsCache ==
    [][\A w \in Threads :
          ListedNone(w) =>
             /\ price_cache' = NoPrice
             /\ cacheAge' = cache_ttl
             /\ thr'[w] = [pc |-> "sleep", todo |-> << >>, closed |-> 0]
             /\ UNCHANGED <<venueVars, wDone, wLate, storeRows, gwVars>>]_vars

\* A thread sleeps after a tick that found no position, the cache is empty,
\* and positions the watcher priced earlier have gone since.
C18_Witness ==
    /\ healthy
    /\ positions_list = << >>
    /\ posOpen # Tickets
    /\ price_cache = NoPrice
    /\ cacheAge = cache_ttl
    /\ \E w \in Threads : thr[w].pc = "sleep"

\* A tick of thread w that starts while the watcher runs and monitoring is
\* disabled: the step the thread takes from the while test.
DisabledTick(w) ==
    /\ is_running
    /\ ~enabled
    /\ thr[w].pc = "top"
    /\ thr'[w] # thr[w]

\* C19: a tick that runs while monitoring is disabled goes from the while
\* test straight to the sleep, so it lists no positions, reads no quote and
\* submits no order (venue, closing orders, store and gateway are as before),
\* it leaves the cache, and after the sleep the thread is at the while test
\* again.
C19_DisabledTickIsIdle ==
    [][\A w \in Threads :
          /\ DisabledTick(w) =>
                /\ thr'[w] = [thr[w] EXCEPT !.pc = "sleep"]
                /\ UNCHANGED <<price_cache, cacheAge>>
                /\ UNCHANGED <<venueVars, wDone, wLate, storeRows, gwVars>>
          /\ (thr[w].pc = "sleep" /\ thr'[w] # thr[w]) =>
                thr'[w] = [thr[w] EXCEPT !.pc = "top"]]_vars

\* A thread sleeps while the watcher runs disabled, and the price cached
\* before is still there.
C19_Witness ==
    /\ is_running
    /\ ~enabled
    /\ price_cache # NoPrice
    /\ \E w \in Threads : thr[w].pc = "sleep"

\* Thread w is inside an iteration or in a sleep of monitor_loop.
InIteration(w) == thr[w].pc \in {"fetch", "check", "close", "sleep"}

\* C20: a loop thread ends only at the while test and only with the run flag
\* false, and from anywhere inside an iteration (after a failed listing, a
\* failed quote, a failed close or a caught exception as well) it comes back
\* to the while test.
C20_LoopSurvivesFaults ==
    /\ [][\A w \in Threads :
             (Alive(w) /\ ~Alive(w)') => (thr[w].pc = "top" /\ ~is_running)]_vars
    /\ \A w \in Threads : InIteration(w) ~> (thr[w].pc = "top")

\* The watcher runs, the venue does not answer, and a thread that has lost
\* the rest of its tick sleeps.
C20_Witness ==
    /\ is_running
    /\ enabled
    /\ ~healthy
    /\ positions_list # << >>
    /\ \E w \in Threads : thr[w] = [pc |-> "sleep", todo |-> << >>, closed |-> 0]

\* C21: stop() from the running state clears the run flag and returns True,
\* also when the join has timed out with the thread still alive; a thread at
\* the while test with the flag false starts no iteration but ends; and with
\* the flag false every loop thread ends unless start() sets the flag again.
C21_StopEndsLoop ==
    /\ [][/\ (is_running /\ ~is_running') =>
                (ctl' = "joining" \/ ctlRet' = Returned("stop", TRUE))
          /\ (ctl = "joining" /\ ctl' = "idle") =>
                (~is_running' /\ ctlRet' = Returned("stop", TRUE))
          /\ \A w \in Threads :
                (~is_running /\ thr[w].pc = "top" /\ thr'[w] # thr[w]) =>
                    thr'[w].pc = "dead"]_vars
    /\ \A w \in Threads : (~is_running) ~> (~Alive(w) \/ is_running)

\* stop() has returned True, the flag is false and the thread it waited for
\* is still inside its iteration.
C21_Witness ==
    /\ ~is_running
    /\ ctl = "idle"
    /\ ctlRet = Returned("stop", TRUE)
    /\ monitor_thread # 0
    /\ InIteration(monitor_thread)

\* The request of the open that is with send_order_request or beyond.
OpenSubmitted == exPc \in {"send", "done"} /\ exCalls > 0

\* C24: an open that execute_buy_sell hands to send_order_request has its
\* stop and target, where set, on the right side of the entry (BUY: stop <
\* entry < target, SELL: stop > entry > target), also when the lookups of the
\* check at lines 333-335 fail; an action refused for its ordering has not
\* called send_order_request.
C24_SubmittedIsOrdered ==
    /\ OpenSubmitted => ~OrderingViolated(gwReq)
    /\ (exPc = "done" /\ exOut.reason = "sl_tp_logic") => exCalls = 0

\* A SELL with stop and target set has been sent to the venue.
C24_Witness ==
    /\ OpenSubmitted
    /\ gwSent > 0
    /\ gwReq.type = "SELL"
    /\ gwReq.sl > 0
    /\ gwReq.tp > 0

(***************************************************************************)
(* Claims about the plan executor                                          *)
(***************************************************************************)
\* C22 as stated: execute_trading_plan returns one outcome per
\* recommendation, in the order of the plan (result i is about action i),
\* for every plan.
C22_OneOutcomePerAction ==
    planPc = "done" =>
        /\ Len(results) = Len(plan)
        /\ \A i \in 1..Len(plan) : results[i].action = plan[i].action

\* C23 as stated: every placeholder of a plan that has been executed is in
\* the returned list as a success without ticket, and no venue call and no
\* request was made for it.
C23_PlaceholdersRecorded ==
    planPc = "done" =>
        \A i \in 1..Len(plan) :
            plan[i].action \in PlaceholderActions =>
                /\ i <= Len(results)
                /\ results[i].success
                /\ results[i].order_ticket = 0
                /\ planLog[i].calls = {}
                /\ planLog[i].req = NoRequest

\* C25 as stated: a CLOSE whose order_id is the ticket of a pending order is
\* refused with the reason that the ticket is a pending order, and no
\* closing order is sent.
C25_ClosePendingRefused ==
    \A i \in 1..Len(results) :
        (plan[i].action = "CLOSE" /\ plan[i].order_id \in pendOpen) =>
            /\ ~results[i].success
            /\ results[i].reason = "is_pending"
            /\ planLog[i].req = NoRequest

\* C26 as stated: a CANCEL whose order_id is not the ticket of a pending
\* order (the ticket of a position, or none) is refused by the executor and
\* no request goes to send_order_request.
C26_CancelNonPendingRefused ==
    \A i \in 1..Len(planLog) :
        (plan[i].action = "CANCEL" /\ plan[i].order_id # PendTicket) =>
            /\ planLog[i].req = NoRequest
            /\ "order_send" \notin planLog[i].calls

\* The step in which the executor takes up a MODIFY.
ModifyTaken ==
    /\ Len(planLog') = Len(planLog) + 1
    /\ plan[Len(planLog')].action = "MODIFY"

\* C27: a MODIFY of an open position hands on a request that is a
\* stop/target update of that position (no volume, price or type) in which
\* the stop is the position's own stop unless stop_loss_points > 0 and the
\* target the position's own target unless take_profit_points > 0, and then
\* the value computed from the open price; a MODIFY of any other ticket
\* (a pending order's, or nobody's) is refused without a request.
C27_ModifyKeepsUnspecified ==
    [][ModifyTaken =>
          LET rec == plan[Len(planLog')]
              e   == planLog'[Len(planLog')]
              id  == rec.order_id
              buy == posKind[id].position_type = "Buy"
          IN  IF id \in posOpen
              THEN e.req # NoRequest =>
                     /\ e.req.action = "SLTP"
                     /\ e.req.position = id
                     /\ e.req.volume = 0 /\ e.req.price = 0 /\ e.req.type = "None"
                     /\ e.req.sl = IF rec.stop_loss_points <= 0 THEN position_sl(id)
                                   ELSE IF buy THEN price_open(id) - rec.stop_loss_points
                                   ELSE price_open(id) + rec.stop_loss_points
                     /\ e.req.tp = IF rec.take_profit_points <= 0 THEN posKind[id].tp
                                   ELSE IF buy THEN price_open(id) + rec.take_profit_points
                                   ELSE price_open(id) - rec.take_profit_points
              ELSE /\ e.req = NoRequest
                   /\ planPc' # "send"
                   /\ ~results'[Len(planLog')].success]_vars

\* A MODIFY that names a target and no stop has reached the venue.
C27_Witness ==
    \E i \in 1..Len(planLog) :
        /\ plan[i].action = "MODIFY"
        /\ plan[i].stop_loss_points = 0
        /\ plan[i].take_profit_points > 0
        /\ planLog[i].req # NoRequest
        /\ planLog[i].req.sl = position_sl(plan[i].order_id)
        /\ "order_send" \in planLog[i].calls

\* C28: a CLOSE, CANCEL or MODIFY without order_id has made no venue call
\* and handed on no request, and its outcome is a failure with the reason
\* and without ticket; it is taken up once.
C28_MissingIdRefused ==
    /\ Len(planLog) <= Len(plan)
    /\ \A i \in 1..Len(planLog) :
          (plan[i].action \in {"CLOSE", "CANCEL", "MODIFY"} /\ plan[i].order_id = 0) =>
              /\ planLog[i].calls = {}
              /\ planLog[i].req = NoRequest
              /\ i <= Len(results)
              /\ results[i] = PlanOutcome(plan[i].action, FALSE, "missing_id", 0)

\* A plan has ended in which a CANCEL without order_id was refused and the
\* action after it was executed.
C28_Witness ==
    /\ planPc = "done"
    /\ Len(results) = 2
    /\ plan[1].action = "CANCEL"
    /\ plan[1].order_id = 0
    /\ results[1].reason = "missing_id"

(***************************************************************************)
(* Claims about the listings                                               *)
(***************************************************************************)
\* The step in which a listing appends the dict of an item.
ItemListed == Len(listOut') = Len(listOut) + 1

\* A step of the listing's own: of its loop or of its get_order_comment.
ListingStep == listVars' # listVars \/ stPc'[Lister] # stPc[Lister]

\* C29: the item a listing appends for ticket t carries the text the store
\* held for t when get_order_comment read it, and the venue's own comment
\* when the store held none; no step of a listing changes a row of the store.
C29_ListingSubstitutes ==
    [][/\ ItemListed =>
             LET item == listOut'[Len(listOut')]
             IN  /\ item.ticket = Head(listTodo)
                 /\ item.comment = IF stSeen[Lister] # NoRow THEN stSeen[Lister]
                                   ELSE VenueComment
       /\ ListingStep => UNCHANGED <<dbFile, dbView, lastSaved>>]_vars

\* A listing of two positions has given one the venue's comment and the other
\* a saved rationale.
C29_Witness ==
    /\ listPc = "done"
    /\ Len(listOut) = 2
    /\ listOut[1].comment = VenueComment
    /\ listOut[2].comment = <<"b", "t">>

(***************************************************************************)
(* Claims about the trigger                                                *)
(***************************************************************************)
\* check_position_take_profit answers for the next position of thread w's
\* list: the thread goes on to the close or to the next position.
TriggerAnswered(w) ==
    /\ thr[w].pc = "check"
    /\ thr[w].todo # << >>
    /\ thr'[w] # thr[w]
    /\ thr'[w].pc \in {"check", "close"}

ChecksNext(w) ==
    /\ thr[w].pc = "check"
    /\ thr[w].todo # << >>
    /\ thr'[w] # thr[w]

\* C31: a position with no target (tp <= 0) is never evaluated: the step of
\* the loop that comes to it fetches no quote (the cache and its timestamp
\* stay) and does not go on to a close, and no call of
\* close_position_by_take_profit is ever made for such a position.
C31_NoTargetNotEvaluated ==
    /\ [](\A w \in Threads :
             /\ thr[w].pc = "close" => posKind[Head(thr[w].todo)].tp > 0
             /\ closeCall[w] # NoCall => posKind[closeCall[w].ticket].tp > 0)
    /\ [][\A w \in Threads :
             (ChecksNext(w) /\ posKind[Head(thr[w].todo)].tp <= 0) =>
                /\ UNCHANGED <<price_cache, cacheAge>>
                /\ thr'[w].pc # "close"
                /\ closeCall'[w] = NoCall
                /\ UNCHANGED <<venueVars, wDone, storeRows>>]_vars

\* A tick is through its list: the position without target was passed and
\* is still open, while the Sell position listed after it was closed at its
\* target.
C31_Witness ==
    \E w \in Threads :
        /\ thr[w].pc = "check"
        /\ thr[w].todo = << >>
        /\ posKind[1].tp = 0 /\ posKind[1].magic = SystemMagic
        /\ 1 \in posOpen
        /\ wDone = {2}

\* Thread w calls close_position_by_take_profit for the position its check
\* found triggered, and the call returns.
CloseCalled(w) ==
    /\ thr[w].pc = "close"
    /\ closeCall[w] = NoCall
    /\ closeCall'[w] # NoCall

\* The request is the closing deal of position t: it names the ticket and
\* the full volume and has the opposite side at that side's live price.
ClosesAtQuote(req, t) ==
    /\ req.action = "DEAL"
    /\ req.position = t
    /\ req.volume = position_volume(t)
    /\ posKind[t].position_type = "Buy"  => req.type = "SELL" /\ req.price = bid
    /\ posKind[t].position_type = "Sell" => req.type = "BUY" /\ req.price = tick_ask

\* The call for position t is counted in the tick's closed_positions exactly
\* when it returned True, which it does exactly when the venue confirmed the
\* order and the position is gone.
CountsSuccess(w, t) ==
    /\ thr'[w].closed = thr[w].closed + (IF closeCall'[w].ret THEN 1 ELSE 0)
    /\ thr'[w].todo = Tail(thr[w].todo)
    /\ closeCall'[w].ret => closeCall'[w].req # NoRequest
    /\ posOpen' = IF closeCall'[w].ret THEN posOpen \ {t} ELSE posOpen

\* C32 as stated: every triggered position has, in the same tick, one closing
\* deal submitted for it at the opposite side's live price, and the tick
\* counts the submissions that succeeded.
C32_TriggeredIsSubmitted_Original ==
    [][\A w \in Threads :
          CloseCalled(w) =>
             LET t == Head(thr[w].todo)
             IN  /\ closeCall'[w].ticket = t
                 /\ closeCall'[w].req # NoRequest
                 /\ ClosesAtQuote(closeCall'[w].req, t)
                 /\ CountsSuccess(w, t)]_vars

\* C32: for every triggered position the watcher calls the close in the same
\* tick, once; unless the quote for the close or the symbol cannot be
\* obtained (then nothing is submitted and the call fails), one closing deal
\* is submitted that names the position's ticket and full volume with the
\* opposite side at that side's live price (long: sell at bid; short: buy at
\* ask); the tick's close count grows exactly by the calls that succeeded.
C32_TriggeredIsSubmitted ==
    [][\A w \in Threads :
          CloseCalled(w) =>
             LET t == Head(thr[w].todo)
             IN  /\ closeCall'[w].ticket = t
                 /\ healthy => closeCall'[w].req # NoRequest
                 /\ closeCall'[w].req # NoRequest =>
                        ClosesAtQuote(closeCall'[w].req, t)
                 /\ closeCall'[w].req = NoRequest =>
                        ~closeCall'[w].ret /\ UNCHANGED <<venueVars, storeRows>>
                 /\ CountsSuccess(w, t)]_vars

\* A tick has closed both positions, the Buy at the bid and then the Sell at
\* the ask, and counts two.
C32_Witness ==
    \E w \in Threads :
        /\ thr[w].closed = 2
        /\ closeCall[w].ret
        /\ closeCall[w].ticket = 2
        /\ closeCall[w].req.type = "BUY"
        /\ closeCall[w].req.price = tick_ask
        /\ posOpen \cap {1, 2} = {}

\* The tickets thread w has in hand: those of its list and the one of the
\* close call it has just made.
InHand(w) ==
    {thr[w].todo[i] : i \in DOMAIN thr[w].todo}
        \cup (IF closeCall[w] # NoCall THEN {closeCall[w].ticket} ELSE {})

\* The fetch of thread w gives no list to go through: it failed, or there is
\* no position.
FetchGivesNothing(w) ==
    /\ thr[w].pc = "fetch"
    /\ thr'[w] # thr[w]
    /\ thr'[w].pc # "check"

\* C33: the watcher evaluates and closes only positions that carry the
\* system's magic tag; a position fetch that fails makes the tick submit
\* nothing (venue, store and closes are as before) and raises to nobody: the
\* thread sleeps, its next step is the test of the loop, and a running,
\* enabled loop fetches again.
C33_OwnTagOnly ==
    /\ [](/\ \A w \in Threads : \A t \in InHand(w) : posKind[t].magic = SystemMagic
          /\ \A t \in wDone : posKind[t].magic = SystemMagic)
    /\ [][\A w \in Threads :
             /\ FetchGivesNothing(w) =>
                   /\ thr'[w] = [pc |-> "sleep", todo |-> << >>, closed |-> 0]
                   /\ closeCall'[w] = NoCall
                   /\ UNCHANGED <<venueVars, storeRows, wDone>>
             /\ (thr[w].pc = "sleep" /\ thr'[w] # thr[w]) => thr'[w].pc = "top"
             /\ (thr[w].pc = "top" /\ thr'[w] # thr[w] /\ is_running /\ enabled) =>
                   thr'[w].pc = "fetch"]_vars

\* A tick is through its list and has closed the system's position at its
\* target, while the position with another tag, its target crossed as well,
\* is still open.
C33_Witness ==
    \E w \in Threads :
        /\ thr[w].pc = "check"
        /\ thr[w].todo = << >>
        /\ wDone = {1}
        /\ posKind[2] = [position_type |-> "Buy", tp |-> MaxPrice, magic |-> CallerMagic]
        /\ bid >= posKind[2].tp
        /\ 2 \in posOpen

\* The check of thread w comes to a position with a target while the cache
\* holds no valid price, and gets no quote: no price is cached afterwards.
QuoteFails(w) ==
    /\ ChecksNext(w)
    /\ posKind[Head(thr[w].todo)].tp > 0
    /\ ~CacheValid
    /\ ~CacheValid'
    /\ thr'[w].pc # "sleep"

\* C34: a quote that cannot be fetched for a position skips that position
\* only: the position is not triggered and not closed, the cache and its
\* timestamp are left as they were, and the rest of the tick's list is still
\* there to be evaluated.
C34_NoQuoteSkipsOne ==
    [][\A w \in Threads :
          QuoteFails(w) =>
             /\ thr'[w] = [thr[w] EXCEPT !.todo = Tail(thr[w].todo)]
             /\ closeCall'[w] = NoCall
             /\ UNCHANGED <<price_cache, cacheAge>>
             /\ UNCHANGED <<venueVars, storeRows, wDone>>]_vars

\* No price has been cached yet and the tick has passed its first position,
\* which has a target: its quote could not be fetched; the second position
\* is still in the list.
C34_Witness ==
    \E w \in Threads :
        /\ thr[w].pc = "check"
        /\ thr[w].todo = <<2>>
        /\ posKind[1].tp > 0 /\ posKind[1].magic = SystemMagic
        /\ price_cache = NoPrice
        /\ posOpen = Tickets

\* The cache holds a price whose timestamp is younger than the TTL.
Fresh == price_cache # NoPrice /\ cacheAge < cache_ttl

\* The check of thread w answers for a position with a target.
Decides(w) ==
    /\ ChecksNext(w)
    /\ posKind[Head(thr[w].todo)].tp > 0
    /\ thr'[w].pc # "sleep"

\* C35: get_current_price gives the cached price only while the entry is
\* younger than the TTL, and then fetches nothing; otherwise it fetches the
\* quote (or gets none) and stores its bid with the current time. The price
\* a position is triggered on is the cached one and never older than the
\* TTL.
C35_CacheFreshness ==
    [][\A w \in Threads :
          Decides(w) =>
             LET kind == posKind[Head(thr[w].todo)]
             IN  /\ IF Fresh
                    THEN /\ UNCHANGED <<price_cache, cacheAge>>
                         /\ thr'[w].pc = "close" <=> Triggered(kind, price_cache)
                    ELSE \/ /\ UNCHANGED <<price_cache, cacheAge>>
                            /\ thr'[w].pc # "close"
                         \/ /\ price_cache' = bid
                            /\ cacheAge' = 0
                            /\ thr'[w].pc = "close" <=> Triggered(kind, bid)
                 /\ thr'[w].pc = "close" =>
                       /\ cacheAge' < cache_ttl
                       /\ Triggered(kind, price_cache')]_vars

\* The Sell position listed after a position with a target was triggered on
\* the cached price, which is younger than the TTL, while the live bid has
\* moved to the top of the range.
C35_Witness ==
    \E w \in Threads :
        /\ thr[w].pc = "close"
        /\ Head(thr[w].todo) = 2
        /\ posKind[1].tp > 0 /\ posKind[1].magic = SystemMagic
        /\ 1 \in posOpen
        /\ price_cache = 1
        /\ bid = MaxPrice
        /\ cacheAge < cache_ttl

\* The close the watcher has just called for position t failed.
FailedClose(t) ==
    \E w \in Threads :
        /\ closeCall[w] # NoCall
        /\ closeCall[w].ticket = t
        /\ ~closeCall[w].ret

\* A thread of the watcher is about to call the close for position t.
Reattempted(t) ==
    \E w \in Threads : thr[w].pc = "close" /\ Head(thr[w].todo) = t

\* C38: a take-profit close that fails is not counted and changes nothing
\* the watcher keeps (flag, cache, closed tickets) nor the venue's positions;
\* between two ticks a thread holds no list, no count and no close call, so
\* nothing marks the ticket; and while the position stays open and triggered
\* with the watcher running, enabled and the venue answering, a close is
\* called for it again.
C38_FailedCloseIsRetried ==
    /\ [](\A w \in Threads :
             thr[w].pc \in {"dead", "top", "fetch", "sleep"} =>
                /\ thr[w].todo = << >>
                /\ thr[w].closed = 0
                /\ closeCall[w] = NoCall)
    /\ [][\A w \in Threads :
             (CloseCalled(w) /\ ~closeCall'[w].ret) =>
                /\ thr'[w] = [thr[w] EXCEPT !.pc = "check",
                                            !.todo = Tail(thr[w].todo)]
                /\ UNCHANGED <<is_running, enabled, price_cache, cacheAge,
                               monitor_thread, wDone>>
                /\ UNCHANGED <<venueVars, storeRows>>]_vars
    /\ \A t \in Tickets :
          (FailedClose(t) /\ CrossedAndWatched(t)) ~>
              (Reattempted(t) \/ ~CrossedAndWatched(t))

\* The closing deal the watcher sent for a triggered position was refused:
\* the position is still open, nothing is counted, and the venue answers
\* again.
C38_Witness ==
    \E w \in Threads :
        /\ closeCall[w].ticket = 1
        /\ closeCall[w].req # NoRequest
        /\ ~closeCall[w].ret
        /\ thr[w].closed = 0
        /\ CrossedAndWatched(1)

(***************************************************************************)
(* Claims about starting a disabled watcher                                *)
(***************************************************************************)
\* C37: start() called while monitoring is disabled returns False, sets no
\* flag and creates no thread, so a stopped watcher stays stopped; a loop
\* thread comes into being only by a start() that found monitoring enabled
\* and returned True, so a thread that takes the disabled branch of the loop
\* runs since such a start and the flag was cleared after it.
C37_DisabledStartRefused ==
    [][ /\ (CallReturns("start") /\ ~enabled) =>
               /\ ctlRet'.ret = FALSE
               /\ UNCHANGED <<is_running, enabled, monitor_thread, thr>>
        /\ \A w \in Threads :
              (thr[w].pc = "dead" /\ thr'[w].pc # "dead") =>
                 /\ enabled /\ enabled'
                 /\ ctlRet' = Returned("start", TRUE)
        /\ \A w \in Threads :
              (thr[w].pc = "top" /\ thr'[w].pc = "sleep") => ~enabled
      ]_vars

\* start() has been refused on a stopped watcher that is disabled: no thread
\* runs and the flag is not set.
C37_Witness ==
    /\ ctlRet = Returned("start", FALSE)
    /\ ~enabled
    /\ ~is_running
    /\ monitor_thread = 0
    /\ \A w \in Threads : ~Alive(w)

(***************************************************************************)
(* Claims about the executor and the watcher side by side                  *)
(***************************************************************************)
\* The executor has handed a closing deal for position t to the venue.
ExecutorSentClose(t) ==
    \E i \in DOMAIN planLog :
        /\ planLog[i].req # NoRequest
        /\ planLog[i].req.action = "DEAL"
        /\ planLog[i].req.position = t
        /\ \/ "order_send" \in planLog[i].calls
           \/ i = Len(planLog) /\ planPc = "send" /\ gwSent > 0

\* The watcher has handed a closing deal for position t to the venue.
WatcherSentClose(t) ==
    \E w \in Threads :
        /\ closeCall[w].ticket = t
        /\ closeCall[w].req # NoRequest

\* C36: no interleaving of the executor's CLOSE and the watcher's
\* take-profit close makes both contexts send a closing order for the same
\* position ticket.
C36_OneContextCloses ==
    \A t \in Tickets : ~(ExecutorSentClose(t) /\ WatcherSentClose(t))

(***************************************************************************)
(* Claims about the magic tag                                              *)
(***************************************************************************)
\* C39: every request send_order_request forwards to the venue carries a
\* magic tag; the tag is the caller's when the caller gave one and the
\* configured system tag otherwise, the only change ever made to it being
\* that of an absent tag into the system tag. A request without tag, as
\* execute_buy_sell builds it, so reaches the venue with the tag by which
\* the watcher selects its positions.
C39_ForwardedIsTagged ==
    /\ [](gwPc \in {"send", "result", "persist"} \/ gwSent > 0 =>
             gwReq.magic \in {SystemMagic, CallerMagic})
    /\ [][gwReq'.magic # gwReq.magic =>
             /\ gwPc = "validate"
             /\ gwReq.magic = "None"
             /\ gwReq'.magic = SystemMagic]_vars

\* The venue has confirmed a deal that came without a tag and was sent with
\* the system's.
C39_Witness ==
    /\ gwSent > 0
    /\ gwReq.action = "DEAL"
    /\ gwReq.magic = SystemMagic
    /\ gwRes.kind = "result" /\ gwRes.retcode = "DONE"

============================================================================
